---------------------------- MODULE Spec2Model ----------------------------
(***************************************************************************)
(* Model of the essay-correction pipeline of project-logos (backend):     *)
(*   app/ml/model.py, app/ml/ensemble.py, app/ml/predictor.py,            *)
(*   app/services/corrector.py, app/services/feedback_generator.py,       *)
(*   app/services/linguistic_analyzer.py, app/db/supabase_client.py.      *)
(*                                                                         *)
(* Python floats are modelled in fixed point: a value x in [0,1] is the   *)
(* integer x * SCALE; competency and score values are kept in their own   *)
(* units (0..200, 0..1000); standard deviations in tenths of a unit.      *)
(***************************************************************************)
EXTENDS Integers, Sequences, FiniteSets

VARIABLES
    settings,      \* app.core.config.settings: the two confidence thresholds
    predictor,     \* RedacaoPredictor: model_version and ensemble.models
    redacoes,      \* table "redacoes" (sequence of rows, oldest first)
    correcoes,     \* table "correcoes" (sequence of rows, oldest first)
    pc,            \* position of the corrigir call in flight
    texto,         \* corrigir: argument texto
    redacao_id,    \* corrigir: redacao_data["id"]
    encoding,      \* EnsembleRedacaoModel.predict: encoding
    predicao,      \* corrigir: predicao (result of RedacaoPredictor.predict)
    analise,       \* corrigir: analise (result of analisar_completo)
    correcao,      \* corrigir: correcao (the Correcao object built in step 6)
    rota,          \* the routing annotation logged in step 8 ("pendente" before it)
    erro,          \* the exception that left corrigir, if any
    retorno,       \* the value corrigir returned, if any
    aviso,         \* what _analisar_erros logged in this call ("nenhum": nothing)
    instancia,     \* app.ml.predictor._predictor_instance
    parciais,      \* EnsembleRedacaoModel.predict: what the members that ran
                   \* so far predicted, with the member that predicted it
    espera,        \* number of requests to POST /corrigir accepted by the
                   \* server whose coroutine has not started to run
    feedback_humano,   \* table "feedback_humano" (oldest first)
    modelo_metrics,    \* table "modelo_metrics" (oldest first)
    candidatos,        \* retreinar_modelo_automatico: the locals
                       \* redacoes_alta_confianca and feedback_humano
    dataset,           \* the list _preparar_dataset_retreino returned
    retorno_retreino   \* the value retreinar_modelo_automatico returned

\* the state of the retraining worker (workers/tasks.py) and its tables
retreino == <<feedback_humano, modelo_metrics, candidatos, dataset, retorno_retreino>>

vars == <<settings, predictor, redacoes, correcoes, pc, texto, redacao_id,
          encoding, predicao, analise, correcao, rota, erro, retorno, aviso,
          instancia, parciais, espera, retreino>>

None == [none |-> TRUE]

-----------------------------------------------------------------------------
(* Bounds and program constants *)

\* number of essays submitted in one behaviour
MaxRedacoes == 2

\* longest time an inference takes, in whole units
MaxDuracao == 3

\* number of requests that wait for the event loop
MaxEspera == 2

\* fixed-point resolution of a float in [0,1]
SCALE == 10000

ENSEMBLE_SIZE == 3
MAX_LENGTH == 512
DEFAULT_CONFIDENCE_THRESHOLD == 8500
DEFAULT_LOW_CONFIDENCE_THRESHOLD == 7000

\* the literal 0.70 of gerar_feedback_geral
FEEDBACK_GERAL_LIMIAR == 7000

-----------------------------------------------------------------------------
(* Arithmetic helpers *)

RECURSIVE SumSeq(_)
SumSeq(s) == IF s = <<>> THEN 0 ELSE Head(s) + SumSeq(Tail(s))

Min2(a, b) == IF a <= b THEN a ELSE b
Max2(a, b) == IF a >= b THEN a ELSE b

\* largest r in lo..hi with r*r <= n
RECURSIVE IsqrtIter(_, _, _)
IsqrtIter(n, lo, hi) ==
    IF lo >= hi THEN lo
    ELSE LET mid == (lo + hi + 1) \div 2
         IN  IF mid * mid <= n THEN IsqrtIter(n, mid, hi)
                               ELSE IsqrtIter(n, lo, mid - 1)

Isqrt(n) == IsqrtIter(n, 0, 46340)

\* fixed-point product of two values in [0,1]
FMul(a, b) == (a * b) \div SCALE

FPow5(y) == FMul(FMul(FMul(FMul(y, y), y), y), y)

\* largest y in lo..hi with y^5 <= x (fixed point)
RECURSIVE Root5Iter(_, _, _)
Root5Iter(x, lo, hi) ==
    IF lo >= hi THEN lo
    ELSE LET mid == (lo + hi + 1) \div 2
         IN  IF FPow5(mid) <= x THEN Root5Iter(x, mid, hi)
                                ELSE Root5Iter(x, lo, mid - 1)

\* x ** 0.7 for x in [0,1], as x^(1/2) * x^(1/5)
Pow07(x) == FMul(Isqrt(x * SCALE), Root5Iter(x, 0, SCALE))

\* Python round() of the float num/den: round half to even
RoundHalfEven(num, den) ==
    LET q == num \div den
        r == num % den
    IN  IF 2 * r < den THEN q
        ELSE IF 2 * r > den THEN q + 1
        ELSE IF q % 2 = 0 THEN q ELSE q + 1


-----------------------------------------------------------------------------
(* RedacaoModel: the members of the ensemble *)

\* torch.sigmoid at the logits the parameter files below produce:
\* logit in thousandths -> sigmoid in thousandths
SigmoidPermille(z) ==
    CASE z = -2197 -> 100
      [] z = -405  -> 400
      [] z = 0     -> 500
      [] z = 619   -> 650
      [] z = 847   -> 700
      [] z = 895   -> 710
      [] z = 920   -> 715
      [] z = 944   -> 720
      [] z = 2197  -> 900

\* the sigmoid scaled to 0..1000 for every head, whatever its range
SquashSemFaixa(z, faixa) == (SigmoidPermille(z) * 1000) \div 1000

\* torch.sigmoid(head(pooled_output)) * faixa
Squash(z, faixa) == (SigmoidPermille(z) * faixa) \div 1000

\* the versions found under MODEL_BASE_PATH
Versions == {"vA", "vB", "vC"}

\* a parameter file model_<i>.pt of a version
StateDicts == [version : Versions, i : 0 .. (ENSEMBLE_SIZE - 1)]

Todas(z) == <<z, z, z, z, z>>

\* the logits of the five competency heads of parameter file m on the
\* pooled [CLS] representation h
CompLogits(m, h) ==
    LET k == m.i + 1
    IN  CASE m.version = "vA" ->
               IF h = 0 THEN <<847, 847, 619, 619, 0>>
                        ELSE Todas(<<847, 944, 920>>[k])
          [] m.version = "vB" ->
               IF h = 0 THEN <<847, 847, 619, 619, 0>>
                        ELSE Todas(<<895, 920, 944>>[k])
          [] m.version = "vC" ->
               IF h = 0 THEN Todas(<<-2197, 2197, 0>>[k])
                        ELSE <<(<<-405, 619, 0>>[k]), 847, 847, 619, 0>>

\* the logit of the score head of parameter file m on h
ScoreLogit(m, h) ==
    LET k == m.i + 1
    IN  CASE m.version = "vA" ->
               IF h = 0 THEN <<847, 944, 895>>[k] ELSE <<619, 847, 895>>[k]
          [] m.version = "vB" ->
               IF h = 0 THEN <<-405, 2197, 619>>[k] ELSE <<0, 619, 847>>[k]
          [] m.version = "vC" ->
               IF h = 0 THEN <<-405, 2197, 0>>[k] ELSE <<-2197, 2197, 619>>[k]

\* ModeloTokenizer.encode: truncation to max_length, padding up to it
Vocab == <<"[PAD]", "o", "brasil", "deve", "portanto", "governo", "\n\n", ".\n">>

TokenId(tok) == CHOOSE n \in 1 .. Len(Vocab) : Vocab[n] = tok

Encode(txt) ==
    LET n == Min2(Len(txt), MAX_LENGTH)
    IN  [input_ids |-> [j \in 1 .. n |-> TokenId(txt[j])],
         attention_mask |-> n,
         padding |-> MAX_LENGTH - n]

\* self.bert(...).last_hidden_state[:, 0, :]: the pooled representation,
\* a function of the token ids
Pooled(enc) == SumSeq(enc.input_ids) % 2

\* RedacaoModel.forward
Forward(m, enc) ==
    LET h == Pooled(enc)
        z == CompLogits(m, h)
    IN  [competencias |-> [c \in 1 .. 5 |-> Squash(z[c], 200)],
         score_total  |-> Squash(ScoreLogit(m, h), 1000)]

-----------------------------------------------------------------------------
(* EnsembleRedacaoModel *)

\* load_ensemble: the members are the files model_0 .. model_{n-1} that
\* exist, in that order
RECURSIVE LoadFrom(_, _, _)
LoadFrom(version, presentes, i) ==
    IF i >= ENSEMBLE_SIZE THEN <<>>
    ELSE (IF i \in presentes THEN <<[version |-> version, i |-> i]>> ELSE <<>>)
         \o LoadFrom(version, presentes, i + 1)

LoadEnsemble(version, presentes) == LoadFrom(version, presentes, 0)

\* numpy std (population) of a sequence of integers, in tenths
StdDeci(xs) ==
    LET n  == Len(xs)
        s  == SumSeq(xs)
        s2 == SumSeq([j \in 1 .. n |-> xs[j] * xs[j]])
    IN  Isqrt(100 * (n * s2 - s * s)) \div n

\* the confidence before the clamp, with the sign of the penalty reversed
ConfiancaBrutaInvertida(avg_std_norm) == Pow07(avg_std_norm)

\* the confidence before the clamp, without the exponent
ConfiancaBrutaLinear(avg_std_norm) == SCALE - avg_std_norm

\* confianca = 1.0 - (avg_std_norm ** 0.7)
ConfiancaBruta(avg_std_norm) == SCALE - Pow07(avg_std_norm)

\* _calcular_confianca: competencias_std is a 5-tuple, score_std a number,
\* both in tenths
CalcularConfianca(competencias_std, score_std) ==
    LET comp_std_norm  == [c \in 1 .. 5 |-> (competencias_std[c] * SCALE) \div (10 * 200)]
        score_std_norm == (score_std * SCALE) \div (10 * 1000)
        avg_std_norm   == ((SumSeq(comp_std_norm) \div 5) + score_std_norm) \div 2
    IN  Max2(0, Min2(SCALE, ConfiancaBruta(avg_std_norm)))

\* _classificar_confianca with the second test dropped
ClassificarSemMedia(confianca, cfg) ==
    IF confianca >= cfg.CONFIDENCE_THRESHOLD THEN "alta" ELSE "baixa"

\* _classificar_confianca
ClassificarConfianca(confianca, cfg) ==
    IF confianca >= cfg.CONFIDENCE_THRESHOLD THEN "alta"
    ELSE IF confianca >= cfg.LOW_CONFIDENCE_THRESHOLD THEN "média"
    ELSE "baixa"

\* the mean of the member predictions, taken as the first member's
MediaPrimeiro(xs) == [num |-> xs[1], den |-> 1]

\* numpy mean: the float sum/len, kept as a fraction
Media(xs) == [num |-> SumSeq(xs), den |-> Len(xs)]

\* EnsembleRedacaoModel.predict, the loop over the members: what each member
\* predicts, collected per output
Coletar(models, enc) ==
    LET n      == Len(models)
        saidas == [j \in 1 .. n |-> Forward(models[j], enc)]
    IN  [competencias |-> [c \in 1 .. 5 |-> [j \in 1 .. n |-> saidas[j].competencias[c]]],
         scores       |-> [j \in 1 .. n |-> saidas[j].score_total]]

\* EnsembleRedacaoModel.predict, np.std over the members
Desvios(coletado) ==
    [competencias |-> [c \in 1 .. 5 |-> StdDeci(coletado.competencias[c])],
     score        |-> StdDeci(coletado.scores)]

\* the result of predict with the confidence discounted by the share of the
\* ENSEMBLE_SIZE members that are loaded
AgregarDescontandoMembros(coletado, cfg) ==
    LET desvios   == Desvios(coletado)
        confianca == (CalcularConfianca(desvios.competencias, desvios.score)
                        * Len(coletado.scores)) \div ENSEMBLE_SIZE
    IN  [competencias |-> [c \in 1 .. 5 |->
                              [nota |-> Media(coletado.competencias[c]),
                               std  |-> desvios.competencias[c]]],
         score_total  |-> [nota |-> Media(coletado.scores), std |-> desvios.score],
         confianca    |-> confianca,
         confianca_nivel |-> ClassificarConfianca(confianca, cfg),
         num_modelos  |-> Len(coletado.scores)]

\* EnsembleRedacaoModel.predict after the loop: the result built from the
\* collected predictions of the members
Agregar(coletado, cfg) ==
    LET desvios   == Desvios(coletado)
        confianca == CalcularConfianca(desvios.competencias, desvios.score)
    IN  [competencias |-> [c \in 1 .. 5 |->
                              [nota |-> Media(coletado.competencias[c]),
                               std  |-> desvios.competencias[c]]],
         score_total  |-> [nota |-> Media(coletado.scores), std |-> desvios.score],
         confianca    |-> confianca,
         confianca_nivel |-> ClassificarConfianca(confianca, cfg),
         num_modelos  |-> Len(coletado.scores)]

\* EnsembleRedacaoModel.predict from the members' predictions on
EnsembleResultado(models, enc, cfg) == Agregar(Coletar(models, enc), cfg)

-----------------------------------------------------------------------------
(* RedacaoPredictor *)

\* the error raised by EnsembleRedacaoModel.predict on an empty ensemble
ErroSemModelos ==
    [tipo |-> "ValueError", msg |-> "Nenhum modelo carregado no ensemble",
     etapa |-> "predicao"]

\* RedacaoPredictor.predict after self.ensemble.predict returned: the
\* rounding of the means, the time the call took (time.time() - start_time,
\* in whole units), and the explanation (explicou = FALSE: the explainer
\* failed and its empty explanation is kept)
MontarPredicao(resultado, version, explicou, tempo) ==
    [competencias |-> [c \in 1 .. 5 |->
         RoundHalfEven(resultado.competencias[c].nota.num,
                       resultado.competencias[c].nota.den)],
     score_total |-> RoundHalfEven(resultado.score_total.nota.num,
                                   resultado.score_total.nota.den),
     confianca |-> resultado.confianca,
     confianca_nivel |-> resultado.confianca_nivel,
     modelo_version |-> version,
     tempo_processamento |-> tempo,
     explicacao |-> IF explicou THEN "explicacao" ELSE "sem_explicacao"]

\* should_use_for_training
ShouldUseForTraining(confianca, cfg) == confianca >= cfg.CONFIDENCE_THRESHOLD

\* needs_human_feedback
NeedsHumanFeedback(confianca, cfg) == confianca < cfg.LOW_CONFIDENCE_THRESHOLD

-----------------------------------------------------------------------------
(* LinguisticAnalyzer *)

\* the separators of re.split(r'\n\s*\n|\.\s*\n', texto): a blank line, or a
\* full stop followed by a line break
Separador(tok) == tok \in {"\n\n", ".\n"}

\* _extrair_paragrafos: the text is a sequence of tokens
RECURSIVE SplitParagrafos(_, _)
SplitParagrafos(txt, atual) ==
    IF txt = <<>> THEN (IF atual = <<>> THEN <<>> ELSE <<atual>>)
    ELSE IF Separador(Head(txt))
         THEN (IF atual = <<>> THEN <<>> ELSE <<atual>>)
              \o SplitParagrafos(Tail(txt), <<>>)
         ELSE SplitParagrafos(Tail(txt), Append(atual, Head(txt)))

\* _extrair_paragrafos splitting at blank lines only
RECURSIVE SplitLinhaEmBranco(_, _)
SplitLinhaEmBranco(txt, atual) ==
    IF txt = <<>> THEN (IF atual = <<>> THEN <<>> ELSE <<atual>>)
    ELSE IF Head(txt) = "\n\n"
         THEN (IF atual = <<>> THEN <<>> ELSE <<atual>>)
              \o SplitLinhaEmBranco(Tail(txt), <<>>)
         ELSE SplitLinhaEmBranco(Tail(txt), Append(atual, Head(txt)))

ExtrairSoLinhaEmBranco(txt) == SplitLinhaEmBranco(txt, <<>>)

ExtrairParagrafos(txt) == SplitParagrafos(txt, <<>>)

\* str.lower() of a token
Lower(tok) == IF tok = "Portanto" THEN "portanto" ELSE tok

\* "c in s" for a lexicon entry c and a lower-cased token s: the token is
\* the entry, or holds it as a substring ("mas" in "mesmas", "logo" in
\* "logotipo", "assim" and "como" in "assim como")
Ocorre(c, s) ==
    \/ c = s
    \/ s = "mesmas" /\ c = "mas"
    \/ s = "logotipo" /\ c = "logo"
    \/ s = "assim como" /\ c \in {"assim", "como"}

\* "c in texto.lower()" for a text given as its tokens, joined by blanks
OcorreEmTexto(c, txt) == \E j \in 1 .. Len(txt) : Ocorre(c, Lower(txt[j]))

\* self.conectivos
Conectivos ==
    { "além disso", "ademais", "também", "igualmente", "ainda", "assim como",
      "porém", "contudo", "todavia", "entretanto", "no entanto", "mas",
      "portanto", "logo", "assim", "por conseguinte", "consequentemente",
      "pois", "porque", "uma vez que", "visto que", "já que",
      "por exemplo", "como", "tal como", "isto é", "ou seja",
      "primeiramente", "em seguida", "posteriormente", "finalmente", "por fim" }

\* the rating _analisar_conectivos gives to num_conectivos
NivelConectivos(num_conectivos) ==
    IF num_conectivos >= 8 THEN "excelente"
    ELSE IF num_conectivos >= 5 THEN "adequado"
    ELSE IF num_conectivos >= 3 THEN "suficiente"
    ELSE "insuficiente"

\* conectivos_encontrados: the entries of self.conectivos that occur in the
\* lower-cased text
ConectivosEncontrados(txt) == {c \in Conectivos : OcorreEmTexto(c, txt)}

\* the number of tokens of the text that are a connective of the lexicon
Ocorrencias(txt) ==
    Cardinality({j \in 1 .. Len(txt) : Lower(txt[j]) \in Conectivos})

\* _analisar_conectivos rating the number of occurrences
AnalisarConectivosOcorrencias(txt) == NivelConectivos(Ocorrencias(txt))

\* _analisar_conectivos
AnalisarConectivos(txt) == NivelConectivos(Cardinality(ConectivosEncontrados(txt)))

\* the indicadores of _detectar_conclusao
IndicadoresConclusao ==
    { "portanto", "logo", "assim", "dessa forma", "desse modo",
      "conclui-se", "concluo", "por fim", "finalmente",
      "medidas", "solução", "proposta", "necessário", "deve-se" }

\* _detectar_conclusao without the test of the number of paragraphs
DetectarConclusaoSemMinimo(paragrafos) ==
    /\ paragrafos # <<>>
    /\ \E ind \in IndicadoresConclusao :
           OcorreEmTexto(ind, paragrafos[Len(paragrafos)])

\* _detectar_conclusao
DetectarConclusao(paragrafos) ==
    IF Len(paragrafos) < 2 THEN FALSE
    ELSE \E ind \in IndicadoresConclusao :
             OcorreEmTexto(ind, paragrafos[Len(paragrafos)])

\* _analisar_estrutura (the fields the feedback reads)
AnalisarEstrutura(txt) ==
    LET paragrafos == ExtrairParagrafos(txt)
    IN  [num_paragrafos |-> Len(paragrafos),
         tem_desenvolvimento |-> Len(paragrafos) >= 3,
         tem_conclusao |-> DetectarConclusao(paragrafos),
         uso_conectivos |-> AnalisarConectivos(txt)]

\* the rule categories LanguageTool reports: match.ruleId.split("_")[0].lower()
\* and whether it contains "spell" or "orthography"
CategoriaOrtografia(categoria) == categoria \in {"hunspell", "orthography"}

\* self.tool.check(texto): one match per "deve" (a grammar rule) and per
\* "portanto" (a spelling rule)
RECURSIVE ToolCheck(_)
ToolCheck(txt) ==
    IF txt = <<>> THEN <<>>
    ELSE (CASE Head(txt) = "deve" -> <<"agreement">>
            [] Head(txt) = "portanto" -> <<"hunspell">>
            [] OTHER -> <<>>)
         \o ToolCheck(Tail(txt))

\* what happens to LanguageTool in a call of _analisar_erros: self.tool is
\* None (the constructor caught its failure), self.tool.check raises, or
\* self.tool.check returns its matches
EstadosDaFerramenta == {"sem_tool", "check_falhou", "ok"}

\* the line _analisar_erros logs
AvisoDe(ferramenta) ==
    CASE ferramenta = "sem_tool"     -> "LanguageTool não disponível"
      [] ferramenta = "check_falhou" -> "Erro ao analisar gramática"
      [] OTHER                       -> "nenhum"

\* _analisar_erros: disponivel = FALSE when self.tool is None or check raised
AnalisarErros(txt, disponivel) ==
    LET matches == IF disponivel THEN ToolCheck(txt) ELSE <<>>
        erros == [j \in 1 .. Len(matches) |->
                    IF CategoriaOrtografia(matches[j]) THEN "ortografia"
                                                       ELSE "gramática"]
    IN  [erros_gramaticais |-> erros,
         num_erros_ortografia |-> Cardinality({j \in 1 .. Len(erros) : erros[j] = "ortografia"}),
         num_erros_gramatica  |-> Cardinality({j \in 1 .. Len(erros) : erros[j] = "gramática"})]

\* analisar_completo
AnalisarCompleto(txt, disponivel) ==
    LET e == AnalisarErros(txt, disponivel)
    IN  [erros_gramaticais |-> e.erros_gramaticais,
         num_erros_ortografia |-> e.num_erros_ortografia,
         num_erros_gramatica |-> e.num_erros_gramatica,
         analise_estrutura |-> AnalisarEstrutura(txt)]

-----------------------------------------------------------------------------
(* FeedbackGenerator *)

\* the level of _feedback_c1 and _feedback_c2
NivelCinco(nota) ==
    IF nota >= 180 THEN "Excelente"
    ELSE IF nota >= 160 THEN "Muito Bom"
    ELSE IF nota >= 140 THEN "Bom"
    ELSE IF nota >= 120 THEN "Regular"
    ELSE "Insuficiente"

\* the level of _feedback_c3, _feedback_c4 and _feedback_c5
NivelQuatro(nota) ==
    IF nota >= 180 THEN "Excelente"
    ELSE IF nota >= 160 THEN "Muito Bom"
    ELSE IF nota >= 140 THEN "Bom"
    ELSE "Regular"

\* pydantic: Competencia.nota = Field(..., ge=0, le=200)
CompetenciaValida(nota) == nota >= 0 /\ nota <= 200

\* gerar_feedback_competencia: the text of competency 1 quotes the number of
\* findings ("Foram identificados {num_erros} desvios"), the other texts are
\* chosen by the level alone
GerarFeedbackCompetencia(numero, nota, erros_gramaticais) ==
    LET nivel == IF numero <= 2 THEN NivelCinco(nota) ELSE NivelQuatro(nota)
    IN  [numero |-> numero, nota |-> nota, nivel |-> nivel,
         feedback |-> IF numero = 1 THEN <<nivel, Len(erros_gramaticais)>>
                                    ELSE <<nivel>>]

\* the level of gerar_feedback_geral and gerar_resumo_avaliacao
NivelGeral(score_total) ==
    IF score_total >= 900 THEN "Excelente"
    ELSE IF score_total >= 800 THEN "Muito Bom"
    ELSE IF score_total >= 700 THEN "Bom"
    ELSE IF score_total >= 600 THEN "Regular"
    ELSE "Precisa Melhorar"

\* max(competencias, key=nota) and min(...): the first of the best / worst
MelhorComp(competencias) ==
    CHOOSE c \in 1 .. 5 :
        /\ \A d \in 1 .. 5 : competencias[d].nota <= competencias[c].nota
        /\ \A d \in 1 .. (c - 1) : competencias[d].nota < competencias[c].nota

PiorComp(competencias) ==
    CHOOSE c \in 1 .. 5 :
        /\ \A d \in 1 .. 5 : competencias[d].nota >= competencias[c].nota
        /\ \A d \in 1 .. (c - 1) : competencias[d].nota > competencias[c].nota

\* the test before "Recomenda-se validação da correção por um professor."
RecomendaValidacao(confianca) == confianca < FEEDBACK_GERAL_LIMIAR

\* gerar_feedback_geral
GerarFeedbackGeral(score_total, competencias, confianca) ==
    [score_total |-> score_total,
     nivel  |-> NivelGeral(score_total),
     melhor |-> MelhorComp(competencias),
     pior   |-> PiorComp(competencias),
     recomenda_validacao |-> RecomendaValidacao(confianca)]

\* gerar_resumo_avaliacao
GerarResumoAvaliacao(score_total) ==
    [score_total |-> score_total, nivel |-> NivelGeral(score_total)]

-----------------------------------------------------------------------------
(* RedacaoCorrector.corrigir, one step per stage *)

\* how long the inference of step 2 may take
Duracoes == 1 .. MaxDuracao

\* the essays submitted
Textos ==
    { <<"o", "governo", "deve">>,
      <<"o", "brasil", "\n\n", "portanto", "o", "governo", "deve">> }

\* the values CONFIDENCE_THRESHOLD and LOW_CONFIDENCE_THRESHOLD are
\* configured to: the defaults, and a pair with both thresholds lowered; the
\* low one is below the high one
Configuracoes ==
    { [CONFIDENCE_THRESHOLD     |-> DEFAULT_CONFIDENCE_THRESHOLD,
       LOW_CONFIDENCE_THRESHOLD |-> DEFAULT_LOW_CONFIDENCE_THRESHOLD],
      [CONFIDENCE_THRESHOLD     |-> DEFAULT_LOW_CONFIDENCE_THRESHOLD,
       LOW_CONFIDENCE_THRESHOLD |-> 6000] }

Init ==
    /\ settings \in Configuracoes
    /\ \E v \in Versions, presentes \in SUBSET (0 .. (ENSEMBLE_SIZE - 1)) :
           predictor = [model_version |-> v, models |-> LoadEnsemble(v, presentes)]
    /\ instancia = predictor
    /\ parciais = <<>>
    /\ espera = 0
    /\ redacoes = <<>>
    /\ correcoes = <<>>
    /\ pc = "ocioso"
    /\ texto = None
    /\ redacao_id = None
    /\ encoding = None
    /\ predicao = None
    /\ analise = None
    /\ correcao = None
    /\ rota = "pendente"
    /\ erro = None
    /\ retorno = None
    /\ aviso = "nenhum"
    /\ feedback_humano = <<>>
    /\ modelo_metrics = <<>>
    /\ candidatos = None
    /\ dataset = None
    /\ retorno_retreino = None

\* an exception leaves corrigir
Falhar(e) ==
    /\ pc' = "falhou"
    /\ erro' = e

\* step 1: supabase_client.criar_redacao (it re-raises what the insert raises)
CriarRedacao ==
    /\ pc = "ocioso"
    /\ Len(redacoes) < MaxRedacoes
    /\ \E txt \in Textos, ok \in BOOLEAN :
          /\ texto' = txt
          /\ IF ok
             THEN /\ redacoes' = Append(redacoes, [id |-> Len(redacoes) + 1, texto |-> txt])
                  /\ redacao_id' = Len(redacoes) + 1
                  /\ pc' = "recebido"
                  /\ erro' = erro
             ELSE /\ Falhar([tipo |-> "APIError", msg |-> "insert", etapa |-> "criar_redacao"])
                  /\ UNCHANGED <<redacoes, redacao_id>>
    /\ UNCHANGED <<settings, predictor, correcoes, encoding, predicao, analise,
                   correcao, rota, retorno, aviso,
                   instancia, parciais, retreino>>

\* a call of corrigir starts
Receber == CriarRedacao /\ espera' = espera

\* a request arrives while the event loop may be busy: its coroutine is
\* scheduled
Chegar ==
    /\ espera < MaxEspera
    /\ espera' = espera + 1
    /\ UNCHANGED <<settings, predictor, redacoes, correcoes, pc, texto, redacao_id,
                   encoding, predicao, analise, correcao, rota, erro, retorno, aviso,
                   instancia, parciais, retreino>>

\* the event loop runs the coroutine of a waiting request: it can, when no
\* other coroutine is running, and corrigir starts
ReceberDaFila ==
    /\ espera > 0
    /\ espera' = espera - 1
    /\ CriarRedacao

\* the prediction of an ensemble that answers with zeros instead of raising
PalpiteZero ==
    [competencias |-> Todas(0), score_total |-> 0, confianca |-> 0,
     confianca_nivel |-> "baixa", modelo_version |-> predictor.model_version,
     tempo_processamento |-> 1, explicacao |-> "sem_explicacao"]

\* Codificar without the test of the empty ensemble: it answers a guess
CodificarSemGuarda ==
    /\ pc = "recebido"
    /\ IF predictor.models = <<>>
       THEN /\ predicao' = PalpiteZero
            /\ pc' = "pontuado"
            /\ UNCHANGED <<encoding, erro>>
       ELSE /\ encoding' = Encode(texto)
            /\ pc' = "codificado"
            /\ UNCHANGED <<predicao, erro>>
    /\ UNCHANGED <<settings, predictor, redacoes, correcoes, texto, redacao_id,
                   analise, correcao, rota, retorno, aviso,
                   instancia, parciais, espera, retreino>>

\* step 2, EnsembleRedacaoModel.predict up to the tokenizer: the empty
\* ensemble is refused, the text is encoded
Codificar ==
    /\ pc = "recebido"
    /\ IF predictor.models = <<>>
       THEN /\ Falhar(ErroSemModelos)
            /\ encoding' = encoding
       ELSE \E ok \in BOOLEAN :
               IF ok
               THEN /\ encoding' = Encode(texto)
                    /\ pc' = "codificado"
                    /\ erro' = erro
               ELSE /\ Falhar([tipo |-> "RuntimeError", msg |-> "tokenizer", etapa |-> "encode"])
                    /\ encoding' = encoding
    /\ UNCHANGED <<settings, predictor, redacoes, correcoes, texto, redacao_id,
                   predicao, analise, correcao, rota, retorno, aviso,
                   instancia, parciais, espera, retreino>>

\* Pontuar with the exception of a member caught and a guess carried on
PontuarComPalpite ==
    /\ pc = "codificado"
    /\ \E ok \in BOOLEAN :
          IF ok
          THEN /\ predicao' = MontarPredicao(
                                  EnsembleResultado(predictor.models, encoding, settings),
                                  predictor.model_version, TRUE, 1)
               /\ erro' = erro
          ELSE /\ predicao' = PalpiteZero
               /\ erro' = [tipo |-> "RuntimeError", msg |-> "forward", etapa |-> "forward"]
    /\ pc' = "pontuado"
    /\ UNCHANGED <<settings, predictor, redacoes, correcoes, texto, redacao_id,
                   encoding, analise, correcao, rota, retorno, aviso,
                   instancia, parciais, espera, retreino>>

\* Pontuar with the failure of the explanation let out of predict
PontuarExplicacaoFatal ==
    /\ pc = "codificado"
    /\ \E ok \in BOOLEAN, explicou \in BOOLEAN :
          IF ok /\ explicou
          THEN /\ predicao' = MontarPredicao(
                                  EnsembleResultado(predictor.models, encoding, settings),
                                  predictor.model_version, TRUE, 1)
               /\ pc' = "pontuado"
               /\ erro' = erro
          ELSE /\ Falhar([tipo |-> "RuntimeError",
                          msg |-> IF ok THEN "explain" ELSE "forward",
                          etapa |-> IF ok THEN "explicacao" ELSE "forward"])
               /\ predicao' = predicao
    /\ UNCHANGED <<settings, predictor, redacoes, correcoes, texto, redacao_id,
                   encoding, analise, correcao, rota, retorno, aviso,
                   instancia, parciais, espera, retreino>>

\* step 2, the rest of RedacaoPredictor.predict: every member runs (any of
\* them may raise) for as long as it takes, the ensemble result is rounded,
\* the explanation is added
PontuarDurando(duracoes) ==
    /\ pc = "codificado"
    /\ \E ok \in BOOLEAN, explicou \in BOOLEAN, tempo \in duracoes :
          IF ok
          THEN /\ predicao' = MontarPredicao(
                                  EnsembleResultado(predictor.models, encoding, settings),
                                  predictor.model_version, explicou, tempo)
               /\ pc' = "pontuado"
               /\ erro' = erro
          ELSE /\ Falhar([tipo |-> "RuntimeError", msg |-> "forward", etapa |-> "forward"])
               /\ predicao' = predicao
    /\ UNCHANGED <<settings, predictor, redacoes, correcoes, texto, redacao_id,
                   encoding, analise, correcao, rota, retorno, aviso,
                   instancia, parciais, espera, retreino>>

\* step 2 when the inference takes one unit of time
Pontuar == PontuarDurando({1})

\* step 2 when the inference takes any of the durations
PontuarDemorado == PontuarDurando(Duracoes)

\* step 2 taken one member at a time, EnsembleRedacaoModel.predict's loop
\* `for model in self.models`: the next member of the ensemble the corrector
\* holds runs on the encoding (it may raise)
RodarMembro ==
    /\ pc = "codificado"
    /\ Len(parciais) < Len(predictor.models)
    /\ \E ok \in BOOLEAN :
          IF ok
          THEN /\ parciais' = Append(parciais,
                      [membro |-> predictor.models[Len(parciais) + 1],
                       saida  |-> Forward(predictor.models[Len(parciais) + 1], encoding)])
               /\ UNCHANGED <<pc, erro>>
          ELSE /\ Falhar([tipo |-> "RuntimeError", msg |-> "forward", etapa |-> "forward"])
               /\ parciais' = parciais
    /\ UNCHANGED <<settings, predictor, redacoes, correcoes, texto, redacao_id,
                   encoding, predicao, analise, correcao, rota, retorno, aviso,
                   instancia, espera, retreino>>

\* the predictions collected member by member, per output
ColetadoDe(ps) ==
    [competencias |-> [c \in 1 .. 5 |-> [j \in 1 .. Len(ps) |-> ps[j].saida.competencias[c]]],
     scores       |-> [j \in 1 .. Len(ps) |-> ps[j].saida.score_total]]

\* step 2 taken one member at a time, after the loop: the means, the
\* confidence, and the rest of RedacaoPredictor.predict
AgregarMembros ==
    /\ pc = "codificado"
    /\ Len(parciais) >= Len(predictor.models)
    /\ \E explicou \in BOOLEAN :
          predicao' = MontarPredicao(Agregar(ColetadoDe(parciais), settings),
                                     predictor.model_version, explicou, 1)
    /\ pc' = "pontuado"
    /\ UNCHANGED <<settings, predictor, redacoes, correcoes, texto, redacao_id,
                   encoding, analise, correcao, rota, erro, retorno, aviso,
                   instancia, parciais, espera, retreino>>

\* reload_predictor written to load the new version into the predictor the
\* corrector holds
RecarregarNoLugar ==
    /\ \E v \in Versions, presentes \in (SUBSET (0 .. (ENSEMBLE_SIZE - 1))) \ {{}} :
          /\ predictor' = [model_version |-> v, models |-> LoadEnsemble(v, presentes)]
          /\ instancia' = predictor'
    /\ UNCHANGED <<settings, redacoes, correcoes, pc, texto, redacao_id,
                   encoding, predicao, analise, correcao, rota, erro, retorno, aviso,
                   parciais, espera, retreino>>

\* reload_predictor(model_version): a new RedacaoPredictor is constructed
\* (its own ensemble loads the files of the version that exist) and assigned
\* to the global; the corrector keeps the predictor it took at construction
Recarregar ==
    /\ \E v \in Versions, presentes \in (SUBSET (0 .. (ENSEMBLE_SIZE - 1))) \ {{}} :
          instancia' = [model_version |-> v, models |-> LoadEnsemble(v, presentes)]
    /\ UNCHANGED <<settings, predictor, redacoes, correcoes, pc, texto, redacao_id,
                   encoding, predicao, analise, correcao, rota, erro, retorno, aviso,
                   parciais, espera, retreino>>

\* step 3 up to the call self.tool.check(texto), which waits for
\* LanguageTool (with self.tool None there is no call)
ChamarCheck ==
    /\ pc = "pontuado"
    /\ \E tem_tool \in BOOLEAN :
          IF tem_tool
          THEN /\ pc' = "analisando"
               /\ UNCHANGED <<analise, aviso>>
          ELSE /\ pc' = "analisado"
               /\ analise' = AnalisarCompleto(texto, FALSE)
               /\ aviso' = AvisoDe("sem_tool")
    /\ UNCHANGED <<settings, predictor, redacoes, correcoes, texto, redacao_id,
                   encoding, predicao, correcao, rota, erro, retorno,
                   instancia, parciais, espera, retreino>>

\* step 3 from the return of self.tool.check (or its exception) on
RetornarCheck ==
    /\ pc = "analisando"
    /\ \E ferramenta \in {"check_falhou", "ok"} :
          /\ analise' = AnalisarCompleto(texto, ferramenta = "ok")
          /\ aviso' = AvisoDe(ferramenta)
    /\ pc' = "analisado"
    /\ UNCHANGED <<settings, predictor, redacoes, correcoes, texto, redacao_id,
                   encoding, predicao, correcao, rota, erro, retorno,
                   instancia, parciais, espera, retreino>>

\* step 3 with an analyzer that lets the failure of self.tool.check out
AnalisarSemTry ==
    /\ pc = "pontuado"
    /\ \E ferramenta \in EstadosDaFerramenta :
          /\ aviso' = AvisoDe(ferramenta)
          /\ IF ferramenta = "check_falhou"
             THEN /\ Falhar([tipo |-> "LanguageToolError", msg |-> "check", etapa |-> "analise"])
                  /\ analise' = analise
             ELSE /\ analise' = AnalisarCompleto(texto, ferramenta = "ok")
                  /\ pc' = "analisado"
                  /\ erro' = erro
    /\ UNCHANGED <<settings, predictor, redacoes, correcoes, texto, redacao_id,
                   encoding, predicao, correcao, rota, retorno,
                   instancia, parciais, espera, retreino>>

\* step 3: self.analyzer.analisar_completo
Analisar ==
    /\ pc = "pontuado"
    /\ \E ferramenta \in EstadosDaFerramenta :
          /\ analise' = AnalisarCompleto(texto, ferramenta = "ok")
          /\ aviso' = AvisoDe(ferramenta)
    /\ pc' = "analisado"
    /\ UNCHANGED <<settings, predictor, redacoes, correcoes, texto, redacao_id,
                   encoding, predicao, correcao, rota, erro, retorno,
                   instancia, parciais, espera, retreino>>

\* pydantic: Correcao.score_total = Field(..., ge=0, le=1000) and
\* Correcao.confianca = Field(..., ge=0, le=1)
CorrecaoValida(score_total, confianca) ==
    /\ score_total >= 0 /\ score_total <= 1000
    /\ confianca >= 0 /\ confianca <= SCALE

\* steps 4 to 6: the feedback of each competency, the overall feedback, the
\* Correcao object
MontarCorrecao(rid, pred, an) ==
    LET competencias == [c \in 1 .. 5 |-> GerarFeedbackCompetencia(c, pred.competencias[c],
                                                   an.erros_gramaticais)]
    IN  [id |-> <<"uuid4", rid>>,
         redacao_id |-> rid,
         score_total |-> pred.score_total,
         competencias |-> competencias,
         confianca |-> pred.confianca,
         confianca_nivel |-> pred.confianca_nivel,
         erros_gramaticais |-> an.erros_gramaticais,
         num_erros_ortografia |-> an.num_erros_ortografia,
         num_erros_gramatica |-> an.num_erros_gramatica,
         analise_estrutura |-> an.analise_estrutura,
         feedback_geral |-> GerarFeedbackGeral(pred.score_total, competencias, pred.confianca),
         resumo_avaliacao |-> GerarResumoAvaliacao(pred.score_total),
         modelo_version |-> pred.modelo_version,
         tempo_processamento |-> pred.tempo_processamento]

Sintetizar ==
    /\ pc = "analisado"
    /\ IF /\ \A c \in 1 .. 5 : CompetenciaValida(predicao.competencias[c])
          /\ CorrecaoValida(predicao.score_total, predicao.confianca)
       THEN /\ correcao' = MontarCorrecao(redacao_id, predicao, analise)
            /\ pc' = "sintetizado"
            /\ erro' = erro
       ELSE /\ Falhar([tipo |-> "ValidationError", msg |-> "pydantic", etapa |-> "sintese"])
            /\ correcao' = correcao
    /\ UNCHANGED <<settings, predictor, redacoes, correcoes, texto, redacao_id,
                   encoding, predicao, analise, rota, retorno, aviso,
                   instancia, parciais, espera, retreino>>

\* the row supabase_client.criar_correcao inserts: the id is the table's
LinhaCorrecao(c, n) ==
    [id |-> <<"correcoes", n>>,
     redacao_id |-> c.redacao_id,
     score_total |-> c.score_total,
     notas |-> [k \in 1 .. 5 |-> c.competencias[k].nota],
     confianca |-> c.confianca,
     modelo_version |-> c.modelo_version,
     feedback_geral |-> c.feedback_geral,
     dados_completos |->
         [confianca_nivel |-> c.confianca_nivel,
          competencias |-> c.competencias,
          erros_gramaticais |-> c.erros_gramaticais,
          resumo_avaliacao |-> c.resumo_avaliacao,
          num_erros_ortografia |-> c.num_erros_ortografia,
          num_erros_gramatica |-> c.num_erros_gramatica,
          analise_estrutura |-> c.analise_estrutura]]

\* Salvar with the exception of criar_correcao logged and not re-raised
SalvarSemRaise ==
    /\ pc = "sintetizado"
    /\ \E ok \in BOOLEAN :
          correcoes' = IF ok THEN Append(correcoes, LinhaCorrecao(correcao, Len(correcoes) + 1))
                             ELSE correcoes
    /\ pc' = "persistido"
    /\ UNCHANGED <<settings, predictor, redacoes, texto, redacao_id, encoding,
                   predicao, analise, correcao, rota, erro, retorno, aviso,
                   instancia, parciais, espera, retreino>>

\* step 7: _salvar_correcao (it re-raises what criar_correcao raises)
Salvar ==
    /\ pc = "sintetizado"
    /\ \E ok \in BOOLEAN :
          IF ok
          THEN /\ correcoes' = Append(correcoes, LinhaCorrecao(correcao, Len(correcoes) + 1))
               /\ pc' = "persistido"
               /\ erro' = erro
          ELSE /\ Falhar([tipo |-> "APIError", msg |-> "insert", etapa |-> "criar_correcao"])
               /\ correcoes' = correcoes
    /\ UNCHANGED <<settings, predictor, redacoes, texto, redacao_id, encoding,
                   predicao, analise, correcao, rota, retorno, aviso,
                   instancia, parciais, espera, retreino>>

\* Rotear with a routing that raises for a correction needing human feedback
RotearBloqueante ==
    /\ pc = "persistido"
    /\ IF NeedsHumanFeedback(correcao.confianca, settings)
       THEN /\ Falhar([tipo |-> "RuntimeError", msg |-> "routing", etapa |-> "roteamento"])
            /\ rota' = rota
       ELSE /\ rota' = IF ShouldUseForTraining(correcao.confianca, settings)
                       THEN "retreino" ELSE "nenhuma"
            /\ pc' = "roteado"
            /\ erro' = erro
    /\ UNCHANGED <<settings, predictor, redacoes, correcoes, texto, redacao_id,
                   encoding, predicao, analise, correcao, retorno, aviso,
                   instancia, parciais, espera, retreino>>

\* step 8: the routing decision, which only writes to the log
Rotear ==
    /\ pc = "persistido"
    /\ rota' = IF ShouldUseForTraining(correcao.confianca, settings) THEN "retreino"
               ELSE IF NeedsHumanFeedback(correcao.confianca, settings) THEN "feedback_humano"
               ELSE "nenhuma"
    /\ pc' = "roteado"
    /\ UNCHANGED <<settings, predictor, redacoes, correcoes, texto, redacao_id,
                   encoding, predicao, analise, correcao, erro, retorno, aviso,
                   instancia, parciais, espera, retreino>>

\* return correcao
Retornar ==
    /\ pc = "roteado"
    /\ retorno' = correcao
    /\ pc' = "retornado"
    /\ UNCHANGED <<settings, predictor, redacoes, correcoes, texto, redacao_id,
                   encoding, predicao, analise, correcao, rota, erro, aviso,
                   instancia, parciais, espera, retreino>>

\* the call is over (returned or raised); the next request may come
Proxima ==
    /\ pc \in {"retornado", "falhou"}
    /\ pc' = "ocioso"
    /\ texto' = None
    /\ redacao_id' = None
    /\ encoding' = None
    /\ predicao' = None
    /\ analise' = None
    /\ correcao' = None
    /\ rota' = "pendente"
    /\ erro' = None
    /\ retorno' = None
    /\ aviso' = "nenhum"
    /\ parciais' = <<>>
    /\ UNCHANGED <<settings, predictor, redacoes, correcoes, instancia, espera, retreino>>

\* corrigir_redacao (POST /corrigir), its except clause: what the caller of
\* the endpoint receives for the exception e that left corrigir
RespostaDeErro(e) ==
    [status_code |-> 500,
     detail |-> <<"Erro ao processar correção: ", e.msg>>]

\* corrigir_redacao: what the caller of the endpoint receives for the call
\* that ended
RespostaHTTP ==
    IF pc = "falhou" THEN RespostaDeErro(erro)
    ELSE [status_code |-> 200,
          detail |-> <<"Redação corrigida com sucesso", retorno>>]

Next ==
    \/ Receber
    \/ Codificar
    \/ Pontuar
    \/ Analisar
    \/ Sintetizar
    \/ Salvar
    \/ Rotear
    \/ Retornar
    \/ Proxima

Spec == Init /\ [][Next]_vars

-----------------------------------------------------------------------------
(* Properties *)

DefaultSettings ==
    [CONFIDENCE_THRESHOLD |-> DEFAULT_CONFIDENCE_THRESHOLD,
     LOW_CONFIDENCE_THRESHOLD |-> DEFAULT_LOW_CONFIDENCE_THRESHOLD]

\* C1: with one or more members loaded and whatever the essay, the
\* prediction made once scoring completed and the Correction returned carry
\* five competency values in 0..200 and an aggregate score in 0..1000.
C1_NotasNaFaixa ==
    /\ (predicao # None) =>
          /\ \A c \in 1 .. 5 : predicao.competencias[c] \in 0 .. 200
          /\ predicao.score_total \in 0 .. 1000
    /\ (retorno # None) =>
          /\ Len(retorno.competencias) = 5
          /\ \A c \in 1 .. 5 : retorno.competencias[c].nota \in 0 .. 200
          /\ retorno.score_total \in 0 .. 1000

C1_Witness ==
    /\ pc = "retornado"
    /\ Len(predictor.models) = ENSEMBLE_SIZE
    /\ retorno.score_total = 617
    /\ retorno.competencias[1].nota = 143

\* C2: with no member loaded the call fails, with the error of the empty
\* ensemble as soon as the essay was stored: no prediction is made (not even
\* a zero-confidence one), no Correction is built, persisted or returned.
C2_SemModelosFalha ==
    (predictor.models = <<>>) =>
        /\ predicao = None
        /\ correcao = None
        /\ retorno = None
        /\ correcoes = <<>>
        /\ pc \in {"ocioso", "recebido", "falhou"}
        /\ (pc = "falhou" /\ erro.etapa # "criar_redacao") => erro = ErroSemModelos

C2_Witness ==
    /\ predictor.models = <<>>
    /\ pc = "falhou"
    /\ erro = ErroSemModelos

\* C3: when the scoring stage fails (the refusal of the empty ensemble, the
\* encoder or a member raising), the call has failed, holds no prediction and
\* no Correction, returns nothing, and no Correction row references the
\* essay of that submission.
C3_FalhaNaPontuacao ==
    (erro # None /\ erro.etapa \in {"predicao", "encode", "forward"}) =>
        /\ pc = "falhou"
        /\ predicao = None
        /\ correcao = None
        /\ retorno = None
        /\ \A j \in 1 .. Len(correcoes) : correcoes[j].redacao_id # redacao_id

C3_Witness ==
    /\ pc = "falhou"
    /\ erro.etapa = "forward"
    /\ Len(correcoes) >= 1

Etapas ==
    <<"ocioso", "recebido", "codificado", "pontuado", "analisado",
      "sintetizado", "persistido", "roteado", "retornado">>

Posicao(p) == CHOOSE j \in 1 .. Len(Etapas) : Etapas[j] = p

\* C4: a submission enters each stage from the stage before it and from no
\* other; a Correction row is written only from the synthesized stage, when
\* prediction, analysis and Correction are there, and it is the row of that
\* Correction; the routing is decided only from the persisted stage; and a
\* Correction is returned only if a row holding its scores was persisted.
C4_EtapasEmOrdem ==
    /\ [][(pc' # pc /\ pc' \notin {"falhou", "ocioso"}) =>
              (pc # "falhou" /\ Posicao(pc') = Posicao(pc) + 1)]_vars
    /\ [][(correcoes' # correcoes) =>
              /\ pc = "sintetizado" /\ pc' = "persistido"
              /\ predicao # None /\ analise # None /\ correcao # None
              /\ correcoes' = Append(correcoes, LinhaCorrecao(correcao, Len(correcoes) + 1))]_vars
    /\ [][(rota' # rota /\ rota' # "pendente") => (pc = "persistido" /\ pc' = "roteado")]_vars
    /\ [][(retorno' # retorno /\ retorno' # None) =>
              /\ pc = "roteado"
              /\ retorno' = correcao
              /\ \E j \in 1 .. Len(correcoes) :
                    /\ correcoes[j].redacao_id = correcao.redacao_id
                    /\ correcoes[j].score_total = correcao.score_total
                    /\ correcoes[j].confianca = correcao.confianca
                    /\ \A c \in 1 .. 5 : correcoes[j].notas[c] = correcao.competencias[c].nota]_vars

C4_Witness ==
    /\ pc = "retornado"
    /\ rota = "feedback_humano"
    /\ Len(correcoes) = 2

\* the ends of [0,1] and the values at and next to the two thresholds
ValoresDeFronteira(cfg) ==
    {0, SCALE} \cup { t + e : t \in {cfg.CONFIDENCE_THRESHOLD, cfg.LOW_CONFIDENCE_THRESHOLD},
                              e \in {-1, 0, 1} }

C6_RevisaoHumanaSeBaixa ==
    (correcao # None) =>
        /\ correcao.feedback_geral.recomenda_validacao
               <=> (correcao.confianca < settings.LOW_CONFIDENCE_THRESHOLD)
        /\ correcao.feedback_geral.recomenda_validacao
               <=> (correcao.confianca_nivel = "baixa")

\* the aggregate predictions of the loaded members on the encoded essay are
\* `scores`, and their competency predictions agree
MembrosPreveem(scores) ==
    /\ encoding # None
    /\ Len(predictor.models) = Len(scores)
    /\ \A j \in 1 .. Len(scores) :
          /\ Forward(predictor.models[j], encoding).score_total = scores[j]
          /\ Forward(predictor.models[j], encoding).competencias
                 = Forward(predictor.models[1], encoding).competencias

CenarioA == settings = DefaultSettings /\ MembrosPreveem(<<700, 720, 710>>)

CenarioB == settings = DefaultSettings /\ MembrosPreveem(<<400, 900, 650>>)

\* C7 (the claim as stated): in scenario B the tier is "baixa" and the
\* overall narrative carries the human-review sentence.
C7_CenarioBBaixa ==
    /\ (CenarioB /\ predicao # None) => predicao.confianca_nivel = "baixa"
    /\ (CenarioB /\ correcao # None) => correcao.feedback_geral.recomenda_validacao

\* C7 (amended): in scenario B the confidence lies between the two
\* thresholds, the tier is "média", and the overall narrative carries no
\* human-review sentence.
C7_CenarioBMedia ==
    /\ (CenarioB /\ predicao # None) =>
          /\ predicao.score_total = 650
          /\ predicao.confianca >= DEFAULT_LOW_CONFIDENCE_THRESHOLD
          /\ predicao.confianca < DEFAULT_CONFIDENCE_THRESHOLD
          /\ predicao.confianca_nivel = "média"
    /\ (CenarioB /\ correcao # None) =>
          /\ correcao.confianca_nivel = "média"
          /\ ~ correcao.feedback_geral.recomenda_validacao

C7_Witness == CenarioB /\ pc = "retornado" /\ retorno.confianca_nivel = "média"

\* C8: in scenario A the reported aggregate is 710, the confidence is above
\* the high threshold, the tier is "alta", and the overall narrative carries
\* no human-review sentence.
C8_CenarioAAlta ==
    /\ (CenarioA /\ predicao # None) =>
          /\ predicao.score_total = 710
          /\ predicao.confianca > DEFAULT_CONFIDENCE_THRESHOLD
          /\ predicao.confianca_nivel = "alta"
    /\ (CenarioA /\ correcao # None) =>
          /\ correcao.score_total = 710
          /\ correcao.confianca_nivel = "alta"
          /\ ~ correcao.feedback_geral.recomenda_validacao

C8_Witness == CenarioA /\ pc = "retornado" /\ retorno.score_total = 710

\* the scoring of one submission by itself: the essay is received, encoded
\* and scored by the ensemble loaded at construction
NextPontuacao == Receber \/ Codificar \/ Pontuar

SpecPontuacao == Init /\ [][NextPontuacao]_vars

\* every ensemble load_ensemble can produce with a member in it
Ensembles ==
    { LoadEnsemble(v, presentes) :
          v \in Versions, presentes \in (SUBSET (0 .. (ENSEMBLE_SIZE - 1))) \ {{}} }

\* the six means of two collections of member predictions are equal
MesmasMedias(k1, k2) ==
    /\ Media(k1.scores).num * Media(k2.scores).den
           = Media(k2.scores).num * Media(k1.scores).den
    /\ \A c \in 1 .. 5 :
          Media(k1.competencias[c]).num * Media(k2.competencias[c]).den
              = Media(k2.competencias[c]).num * Media(k1.competencias[c]).den

\* the spread of every output in d2 is at least that in d1, and larger for one
MaisDisperso(d1, d2) ==
    /\ d2.score >= d1.score
    /\ \A c \in 1 .. 5 : d2.competencias[c] >= d1.competencias[c]
    /\ \/ d2.score > d1.score
       \/ \E c \in 1 .. 5 : d2.competencias[c] > d1.competencias[c]

\* the increases of a standard deviation tried in C9 (tenths of a point)
Aumentos == {1, 10, 100, 1000}

\* C9: the confidence computed for the loaded members is never exceeded by
\* the confidence of member predictions with the same means and a larger
\* spread; and raising the standard deviation of any one output, the others
\* kept, never raises the confidence.
C9_ConfiancaMonotona ==
    (pc = "pontuado") =>
        LET k1 == Coletar(predictor.models, encoding)
            d1 == Desvios(k1)
        IN  /\ predicao.confianca = CalcularConfianca(d1.competencias, d1.score)
            /\ \A ms \in Ensembles :
                  LET k2 == Coletar(ms, encoding)
                      d2 == Desvios(k2)
                  IN  (MesmasMedias(k1, k2) /\ MaisDisperso(d1, d2))
                          => CalcularConfianca(d2.competencias, d2.score)
                                 <= predicao.confianca
            /\ \A d \in Aumentos :
                  /\ CalcularConfianca(d1.competencias, d1.score + d)
                         <= predicao.confianca
                  /\ \A c \in 1 .. 5 :
                        CalcularConfianca([d1.competencias EXCEPT ![c] = @ + d], d1.score)
                            <= predicao.confianca

C9_Witness ==
    /\ pc = "pontuado"
    /\ \E ms \in Ensembles :
          LET k1 == Coletar(predictor.models, encoding)
              k2 == Coletar(ms, encoding)
              d1 == Desvios(k1)
              d2 == Desvios(k2)
          IN  /\ MesmasMedias(k1, k2)
              /\ MaisDisperso(d1, d2)
              /\ CalcularConfianca(d2.competencias, d2.score) < predicao.confianca

\* C10: once routed, a confidence at or above the high threshold is marked
\* for retraining, one below the low threshold is flagged for human
\* feedback, any other is left unmarked; the routing step never fails and
\* never changes the Correction, and the Correction built before it is the
\* one returned.
C10_RoteamentoNaoBloqueia ==
    /\ [](pc \in {"roteado", "retornado"} =>
             /\ (correcao.confianca >= settings.CONFIDENCE_THRESHOLD) <=> (rota = "retreino")
             /\ (correcao.confianca < settings.LOW_CONFIDENCE_THRESHOLD) <=> (rota = "feedback_humano")
             /\ rota \in {"retreino", "feedback_humano", "nenhuma"})
    /\ [][(pc = "persistido") =>
              (pc' = "roteado" /\ correcao' = correcao /\ correcoes' = correcoes /\ erro' = None)]_vars
    /\ [][(pc = "roteado") => (pc' = "retornado" /\ retorno' = correcao /\ erro' = None)]_vars

C10_Witness ==
    /\ pc = "retornado"
    /\ rota = "feedback_humano"
    /\ retorno = correcao
    /\ retorno.confianca < settings.LOW_CONFIDENCE_THRESHOLD

\* C11: when LanguageTool is missing or its check raises, the analysis holds
\* no finding and zero orthography and grammar counts, the structure is
\* still analysed, the analysis step never fails the call, and the
\* Correction built and persisted afterwards carries those empty findings.
C11_AnaliseDegradada ==
    /\ []((aviso # "nenhum") =>
             /\ (erro # None) => erro.etapa = "criar_correcao"
             /\ pc \in {"analisado", "sintetizado", "persistido", "roteado", "retornado", "falhou"}
             /\ analise.erros_gramaticais = <<>>
             /\ analise.num_erros_ortografia = 0
             /\ analise.num_erros_gramatica = 0
             /\ analise.analise_estrutura = AnalisarEstrutura(texto)
             /\ (correcao # None) =>
                   /\ correcao.erros_gramaticais = <<>>
                   /\ correcao.num_erros_ortografia = 0
                   /\ correcao.num_erros_gramatica = 0)
    /\ [][(pc = "pontuado") => (pc' = "analisado" /\ erro' = None)]_vars
    /\ [][(pc = "analisado") => (pc' = "sintetizado" /\ erro' = None)]_vars

C11_Witness ==
    /\ aviso = "Erro ao analisar gramática"
    /\ pc = "retornado"
    /\ retorno.erros_gramaticais = <<>>
    /\ ToolCheck(texto) # <<>>
    /\ \E j \in 1 .. Len(correcoes) :
          /\ correcoes[j].redacao_id = redacao_id
          /\ correcoes[j].dados_completos.num_erros_gramatica = 0

\* C12: whether or not the explanation could be produced, the prediction
\* carries the same five marks, aggregate, confidence and tier; the
\* explanation is the only field that differs (it is the empty one); no call
\* fails in the explanation step, and the Correction built afterwards carries
\* the marks of the prediction.
C12_ExplicacaoNaoFalha ==
    /\ [][(pc = "codificado" /\ pc' = "pontuado") =>
             LET p == MontarPredicao(
                          EnsembleResultado(predictor.models, encoding, settings),
                          predictor.model_version, TRUE,
                          predicao'.tempo_processamento)
             IN  predicao' \in {p, [p EXCEPT !.explicacao = "sem_explicacao"]}]_vars
    /\ []((erro # None) => erro.etapa # "explicacao")
    /\ []((correcao # None) =>
             /\ correcao.score_total = predicao.score_total
             /\ correcao.confianca = predicao.confianca
             /\ correcao.confianca_nivel = predicao.confianca_nivel
             /\ \A c \in 1 .. 5 : correcao.competencias[c].nota = predicao.competencias[c])

C12_Witness ==
    /\ pc = "retornado"
    /\ predicao.explicacao = "sem_explicacao"
    /\ retorno.score_total = predicao.score_total
    /\ retorno.confianca_nivel = "alta"

\* a submission whose inference takes any of the durations, from the call
\* to its return
NextTempo ==
    \/ Receber
    \/ Codificar
    \/ PontuarDemorado
    \/ Analisar
    \/ Sintetizar
    \/ Salvar
    \/ Rotear
    \/ Retornar

SpecTempo == Init /\ [][NextTempo]_vars

\* the time budgets a deployment could set for the scoring stage: those some
\* inference can exceed
Orcamentos == 1 .. (MaxDuracao - 1)

\* C13 (the claim as stated): there is a time budget for the scoring stage
\* that every returned Correction respected, that is no Correction is
\* returned for a submission whose inference took longer than the budget.
C13_OrcamentoDeTempo ==
    (retorno # None) =>
        \E b \in Orcamentos : retorno.tempo_processamento <= b

\* C14 (the claim as stated): the error a caller receives when no member is
\* loaded differs in kind (the status of the response) from the error it
\* receives for any other failure of the request.
C14_ErrosDistinguiveis ==
    (pc = "falhou" /\ erro # ErroSemModelos) =>
        RespostaHTTP.status_code # RespostaDeErro(ErroSemModelos).status_code

\* the scoring of one submission taken member by member, while the model
\* version is reloaded at any moment
NextRecarga ==
    \/ Receber
    \/ Codificar
    \/ RodarMembro
    \/ AgregarMembros
    \/ Recarregar

SpecRecarga == Init /\ [][NextRecarga]_vars

\* C15: whenever versions are reloaded, the members that ran for a
\* submission are all of one version, every member of that ensemble ran
\* once, the prediction is the aggregate of exactly their outputs, and its
\* modelo_version names their version.
C15_VersaoUnica ==
    /\ \A j \in 1 .. Len(parciais) :
          /\ parciais[j].membro.version = parciais[1].membro.version
          /\ parciais[j].membro = predictor.models[j]
    /\ (predicao # None) =>
          /\ Len(parciais) = Len(predictor.models)
          /\ \A j \in 1 .. Len(parciais) :
                parciais[j].membro.version = predicao.modelo_version
          /\ \E explicou \in BOOLEAN :
                predicao = MontarPredicao(EnsembleResultado(predictor.models, encoding, settings),
                                          predicao.modelo_version, explicou, 1)

C15_Witness ==
    /\ pc = "pontuado"
    /\ Len(parciais) = ENSEMBLE_SIZE
    /\ instancia.model_version # predicao.modelo_version
    /\ Len(instancia.models) = ENSEMBLE_SIZE

\* the server: requests arrive at any moment and wait for the event loop,
\* which runs one coroutine of corrigir at a time from start to end (no
\* await of corrigir suspends it); the call self.tool.check is a step of its
\* own
NextFila ==
    \/ Chegar
    \/ ReceberDaFila
    \/ Codificar
    \/ Pontuar
    \/ ChamarCheck
    \/ RetornarCheck
    \/ Sintetizar
    \/ Salvar
    \/ Rotear
    \/ Retornar
    \/ Proxima

SpecFila == Init /\ [][NextFila]_vars

\* C16 (the claim as stated): while the grammar resource blocks for one
\* submission, another submission that waits can start and be scored; and
\* while a submission is being scored, a waiting submission can start, so
\* that its analysis does not wait for the scoring of the first.
C16_ViasIndependentes ==
    (pc \in {"analisando", "codificado"} /\ espera > 0) => ENABLED ReceberDaFila


-----------------------------------------------------------------------------
(* Determinism of corrigir over the persisted corrections *)

\* what a call of corrigir answered, read from the row it persisted: the id
\* of the row and of the essay are left out
Saida(linha) ==
    [notas |-> linha.notas,
     score_total |-> linha.score_total,
     confianca |-> linha.confianca,
     confianca_nivel |-> linha.dados_completos.confianca_nivel,
     erros_gramaticais |-> linha.dados_completos.erros_gramaticais,
     analise_estrutura |-> linha.dados_completos.analise_estrutura,
     competencias |-> linha.dados_completos.competencias,
     feedback_geral |-> linha.feedback_geral,
     resumo_avaliacao |-> linha.dados_completos.resumo_avaliacao]

\* the part of Saida that the ensemble and the structural analysis decide
SaidaNeural(linha) ==
    [notas |-> linha.notas,
     score_total |-> linha.score_total,
     confianca |-> linha.confianca,
     confianca_nivel |-> linha.dados_completos.confianca_nivel,
     analise_estrutura |-> linha.dados_completos.analise_estrutura,
     feedback_geral |-> linha.feedback_geral,
     resumo_avaliacao |-> linha.dados_completos.resumo_avaliacao]

MesmoTexto(i, j) ==
    redacoes[correcoes[i].redacao_id].texto = redacoes[correcoes[j].redacao_id].texto

\* C17: two corrections of the same text under the same model version carry
\* the same five marks, total, confidence, tier, findings, structural profile
\* and narratives, whatever was corrected in between
C17_Determinismo ==
    \A i, j \in 1 .. Len(correcoes) :
        (MesmoTexto(i, j) /\ correcoes[i].modelo_version = correcoes[j].modelo_version)
            => Saida(correcoes[i]) = Saida(correcoes[j])

\* the marks, total, confidence, tier, structural profile and overall
\* narratives of two corrections of the same text are the same
C17_SaidaNeuralIgual ==
    \A i, j \in 1 .. Len(correcoes) :
        (MesmoTexto(i, j) /\ correcoes[i].modelo_version = correcoes[j].modelo_version)
            => SaidaNeural(correcoes[i]) = SaidaNeural(correcoes[j])


-----------------------------------------------------------------------------
(* The retraining worker: workers/tasks.py and the queries it calls *)

\* settings.MIN_SAMPLES_FOR_RETRAIN
MIN_SAMPLES_FOR_RETRAIN == 50

\* the limite retreinar_modelo_automatico passes to each query
LIMITE_ALTA_CONFIANCA == 500
LIMITE_FEEDBACK == 200

MaxFeedback == 2

Reverse(s) == [j \in 1 .. Len(s) |-> s[Len(s) + 1 - j]]

\* .order("created_at", desc=True).limit(limite) over the rows that pass
\* the filter: the rows are kept oldest first, so the newest come first
RecentesPrimeiro(linhas, limite) ==
    LET r == Reverse(linhas)
    IN  SubSeq(r, 1, Min2(limite, Len(r)))

\* the body of buscar_redacoes_alta_confianca: ok = FALSE when execute()
\* raises, and the exception is answered with the empty list
BuscarRedacoesAltaConfianca(limite, confianca_minima, ok) ==
    IF ~ok THEN <<>>
    ELSE LET passam == SelectSeq(correcoes, LAMBDA l : l.confianca >= confianca_minima)
             linhas == RecentesPrimeiro(passam, limite)
         IN  [j \in 1 .. Len(linhas) |->
                 [redacao_id |-> linhas[j].redacao_id,
                  notas |-> linhas[j].notas,
                  score_total |-> linhas[j].score_total,
                  redacoes |-> [texto |-> redacoes[linhas[j].redacao_id].texto]]]

\* the body of buscar_feedback_para_treino: select("*, correcoes(redacao_id,
\* redacoes(texto))"), newest first, at most limite rows
BuscarFeedbackParaTreino(limite, ok) ==
    IF ~ok THEN <<>>
    ELSE LET linhas == RecentesPrimeiro(feedback_humano, limite)
         IN  [j \in 1 .. Len(linhas) |->
                 [id |-> linhas[j].id,
                  correcao_id |-> linhas[j].correcao_id,
                  notas_corretas |-> linhas[j].notas_corretas,
                  score_correto |-> linhas[j].score_correto,
                  correcoes |->
                      LET c == correcoes[linhas[j].correcao_id[2]]
                      IN  [redacao_id |-> c.redacao_id,
                           redacoes |-> [texto |-> redacoes[c.redacao_id].texto]]]]

\* _preparar_dataset_retreino: one example for each high-confidence row,
\* then one for each feedback row
PrepararDatasetRetreino(redacoes_alta_confianca, feedback) ==
    [j \in 1 .. Len(redacoes_alta_confianca) |->
        [texto |-> redacoes_alta_confianca[j].redacoes.texto,
         notas |-> redacoes_alta_confianca[j].notas,
         score_total |-> redacoes_alta_confianca[j].score_total,
         fonte |-> "alta_confianca"]]
    \o
    [j \in 1 .. Len(feedback) |->
        [texto |-> feedback[j].correcoes.redacoes.texto,
         notas |-> feedback[j].notas_corretas,
         score_total |-> feedback[j].score_correto,
         fonte |-> "feedback_humano"]]

\* what a call of an "async def" method gives when it is not awaited: a
\* coroutine object, whose body has not run
Coroutine(corpo) == [tipo |-> "coroutine", corpo |-> corpo]

\* a Python list
Lista(itens) == [tipo |-> "list", itens |-> itens]

\* len(x) is defined (a coroutine object has no __len__: TypeError)
TemLen(x) == x.tipo = "list"

\* the metrics retreinar_modelo_automatico saves (the values are the mock's)
Metricas(total_amostras) ==
    [version |-> "nova_versao", dataset_size |-> total_amostras,
     rmse_total |-> 452, mae_total |-> 358, qwk_total |-> 89, num_retreinos |-> 1]

\* retreinar_modelo_automatico: the two queries are "async def" methods of
\* SupabaseClient and are called without await
RetreinarModeloAutomatico ==
    /\ retorno_retreino = None
    /\ LET redacoes_alta_confianca ==
               Coroutine(<<"buscar_redacoes_alta_confianca", LIMITE_ALTA_CONFIANCA,
                           settings.CONFIDENCE_THRESHOLD>>)
           feedback == Coroutine(<<"buscar_feedback_para_treino", LIMITE_FEEDBACK>>)
       IN  /\ candidatos' = [redacoes_alta_confianca |-> redacoes_alta_confianca,
                             feedback_humano |-> feedback]
           /\ IF ~(TemLen(redacoes_alta_confianca) /\ TemLen(feedback))
              THEN /\ retorno_retreino' =
                          [status |-> "error",
                           error |-> "object of type 'coroutine' has no len()"]
                   /\ UNCHANGED <<dataset, modelo_metrics>>
              ELSE LET total_amostras == Len(redacoes_alta_confianca.itens)
                                           + Len(feedback.itens)
                   IN  IF total_amostras < MIN_SAMPLES_FOR_RETRAIN
                       THEN /\ retorno_retreino' =
                                   [status |-> "skipped",
                                    reason |-> "amostras_insuficientes",
                                    amostras |-> total_amostras]
                            /\ UNCHANGED <<dataset, modelo_metrics>>
                       ELSE /\ dataset' = Lista(PrepararDatasetRetreino(
                                              redacoes_alta_confianca.itens,
                                              feedback.itens))
                            /\ modelo_metrics' = Append(modelo_metrics,
                                                        Metricas(total_amostras))
                            /\ retorno_retreino' =
                                   [status |-> "success",
                                    nova_versao |-> "nova_versao",
                                    amostras_treinadas |-> total_amostras,
                                    metricas |-> Metricas(total_amostras)]
    /\ UNCHANGED <<settings, predictor, redacoes, correcoes, pc, texto, redacao_id,
                   encoding, predicao, analise, correcao, rota, erro, retorno, aviso,
                   instancia, parciais, espera, feedback_humano>>

\* Python None, SQL null: what notas_corretas.get("c2") gives for a mark the
\* teacher did not send
NULO == -1

\* the marks a teacher can send as notas_corretas: every field of
\* FeedbackHumano is Optional, and enviar_feedback copies the fields that
\* are not None
NotasCorretas ==
    { [notas |-> Todas(120), score_total |-> 600],
      [notas |-> Todas(200), score_total |-> 1000],
      [notas |-> <<160, NULO, NULO, NULO, NULO>>, score_total |-> NULO] }

\* the row criar_feedback inserts
LinhaFeedback(n, correcao_id, corretas) ==
    [id |-> <<"feedback_humano", n>>,
     correcao_id |-> correcao_id,
     notas_corretas |-> corretas.notas,
     score_correto |-> corretas.score_total]

\* processar_feedback_humano: criar_feedback inserts a row for a correction
\* that exists, or raises
ProcessarFeedbackHumano ==
    /\ Len(feedback_humano) < MaxFeedback
    /\ \E k \in 1 .. Len(correcoes), corretas \in NotasCorretas :
          feedback_humano' = Append(feedback_humano,
              LinhaFeedback(Len(feedback_humano) + 1, correcoes[k].id, corretas))
    /\ UNCHANGED <<settings, predictor, redacoes, correcoes, pc, texto, redacao_id,
                   encoding, predicao, analise, correcao, rota, erro, retorno, aviso,
                   instancia, parciais, espera, modelo_metrics, candidatos, dataset,
                   retorno_retreino>>


\* the text of the i-th essay of a pool
TextoDe(i) ==
    IF i % 2 = 1 THEN CHOOSE t \in Textos : Len(t) = 3
                 ELSE CHOOSE t \in Textos : Len(t) > 3

\* the Correcao object corrigir builds for essay rid when the predictor
\* answers the marks notas with confidence confianca
CorrecaoCom(rid, notas, confianca, cfg, version) ==
    MontarCorrecao(rid,
        [competencias |-> notas,
         score_total |-> SumSeq(notas),
         confianca |-> confianca,
         confianca_nivel |-> ClassificarConfianca(confianca, cfg),
         modelo_version |-> version,
         tempo_processamento |-> 1],
        AnalisarCompleto(TextoDe(rid), TRUE))

\* Scenario C: 30 corrections of high confidence, 10 of low confidence, and
\* a human feedback record for each of the 10
CenarioC ==
    [confiancas |-> [i \in 1 .. 40 |-> IF i <= 30 THEN 9000 ELSE 6000],
     avaliadas |-> [j \in 1 .. 10 |-> 30 + j]]

\* the tables the worker can find: the confidence of each persisted
\* correction (oldest first) and the corrections that have a feedback record
Pools ==
    { [confiancas |-> <<>>, avaliadas |-> <<>>],
      [confiancas |-> <<9000>>, avaliadas |-> <<>>],
      [confiancas |-> <<6000, 9000>>, avaliadas |-> <<>>],
      [confiancas |-> <<9000, 8000, 6000>>, avaliadas |-> <<>>],
      [confiancas |-> <<8500, 9000, 8000>>, avaliadas |-> <<>>],
      CenarioC }

\* the state after the corrections of a pool were persisted and its feedback
\* records created, the worker not yet run
InitRetreino ==
    /\ settings \in Configuracoes
    /\ \E v \in Versions, pool \in Pools :
          /\ predictor = [model_version |-> v,
                          models |-> LoadEnsemble(v, 0 .. (ENSEMBLE_SIZE - 1))]
          /\ redacoes = [i \in 1 .. Len(pool.confiancas) |->
                            [id |-> i, texto |-> TextoDe(i)]]
          /\ correcoes = [i \in 1 .. Len(pool.confiancas) |->
                            LinhaCorrecao(CorrecaoCom(i, Todas(160), pool.confiancas[i],
                                                      settings, v), i)]
          /\ feedback_humano = [j \in 1 .. Len(pool.avaliadas) |->
                                  LinhaFeedback(j, <<"correcoes", pool.avaliadas[j]>>,
                                                [notas |-> Todas(120), score_total |-> 600])]
    /\ instancia = predictor
    /\ parciais = <<>>
    /\ espera = 0
    /\ pc = "ocioso"
    /\ texto = None
    /\ redacao_id = None
    /\ encoding = None
    /\ predicao = None
    /\ analise = None
    /\ correcao = None
    /\ rota = "pendente"
    /\ erro = None
    /\ retorno = None
    /\ aviso = "nenhum"
    /\ modelo_metrics = <<>>
    /\ candidatos = None
    /\ dataset = None
    /\ retorno_retreino = None

NextRetreino ==
    \/ ProcessarFeedbackHumano
    \/ RetreinarModeloAutomatico

SpecRetreino == InitRetreino /\ [][NextRetreino]_vars

\* the records the two queries select with the arguments of the worker
Selecionaveis ==
    Len(BuscarRedacoesAltaConfianca(LIMITE_ALTA_CONFIANCA, settings.CONFIDENCE_THRESHOLD, TRUE))
    + Len(BuscarFeedbackParaTreino(LIMITE_FEEDBACK, TRUE))

\* C18 (the claim as stated): when fewer records are selected than
\* MIN_SAMPLES_FOR_RETRAIN, the worker answers status "skipped" with reason
\* "amostras_insuficientes", builds no training set and saves no metrics
C18_AmostrasInsuficientes ==
    (retorno_retreino # None /\ Selecionaveis < MIN_SAMPLES_FOR_RETRAIN)
        => /\ retorno_retreino.status = "skipped"
           /\ retorno_retreino.reason = "amostras_insuficientes"
           /\ dataset = None
           /\ modelo_metrics = <<>>

\* the worker has run on Scenario C (30 high-confidence corrections, 10
\* feedback records) and answered status "error"
C18_CenarioCErro ==
    /\ Len(correcoes) = 40
    /\ Len(feedback_humano) = 10
    /\ Selecionaveis = 40
    /\ retorno_retreino # None
    /\ retorno_retreino.status = "error"


\* the rows a local of the worker holds: a coroutine that never ran holds none
Tomadas(x) == IF x.tipo = "list" THEN x.itens ELSE <<>>

\* the persisted corrections (by position, oldest first) that qualify
Qualificadas(confianca_minima) ==
    {k \in 1 .. Len(correcoes) : correcoes[k].confianca >= confianca_minima}

\* itens is a right selection of corrections: at most limite rows, each of a
\* qualifying correction, and a qualifying correction is left out only when
\* limite more recent qualifying ones exist
SelecaoDeCorrecoesCerta(itens, limite, confianca_minima) ==
    LET tomadas == {k \in 1 .. Len(correcoes) :
                      \E j \in 1 .. Len(itens) :
                          itens[j].redacao_id = correcoes[k].redacao_id}
        Q == Qualificadas(confianca_minima)
    IN  /\ Len(itens) <= limite
        /\ tomadas \subseteq Q
        /\ \A k \in Q \ tomadas : Cardinality({m \in Q : m > k}) >= limite

\* the same for the human feedback records, all of which qualify
SelecaoDeFeedbackCerta(itens, limite) ==
    LET tomadas == {k \in 1 .. Len(feedback_humano) :
                      \E j \in 1 .. Len(itens) : itens[j].id = feedback_humano[k].id}
        Q == 1 .. Len(feedback_humano)
    IN  /\ Len(itens) <= limite
        /\ \A k \in Q \ tomadas : Cardinality({m \in Q : m > k}) >= limite

\* C19 (the claim as stated): the worker takes at most LIMITE_ALTA_CONFIANCA
\* of the most recent corrections with confidence >= CONFIDENCE_THRESHOLD and
\* at most LIMITE_FEEDBACK of the most recent feedback records; a qualifying
\* record is left out only when that many more recent ones exist
C19_SelecaoRecente ==
    (candidatos # None)
        => /\ SelecaoDeCorrecoesCerta(Tomadas(candidatos.redacoes_alta_confianca),
                                      LIMITE_ALTA_CONFIANCA, settings.CONFIDENCE_THRESHOLD)
           /\ SelecaoDeFeedbackCerta(Tomadas(candidatos.feedback_humano), LIMITE_FEEDBACK)

\* the limits the two queries are tried with
Limites == {1, 2, LIMITE_ALTA_CONFIANCA}

\* the bodies of the two queries, when they run and the database answers,
\* select rightly for every limit
C19_ConsultasExecutadas ==
    \A lim \in Limites :
        /\ SelecaoDeCorrecoesCerta(
               BuscarRedacoesAltaConfianca(lim, settings.CONFIDENCE_THRESHOLD, TRUE),
               lim, settings.CONFIDENCE_THRESHOLD)
        /\ SelecaoDeFeedbackCerta(BuscarFeedbackParaTreino(lim, TRUE), lim)


\* _preparar_dataset_retreino applied to the rows the two queries answer
\* when they run with the arguments of the worker
PrepararDataset ==
    /\ dataset = None
    /\ \E ok_correcoes \in BOOLEAN, ok_feedback \in BOOLEAN :
          LET redacoes_alta_confianca ==
                  BuscarRedacoesAltaConfianca(LIMITE_ALTA_CONFIANCA,
                                              settings.CONFIDENCE_THRESHOLD, ok_correcoes)
              feedback == BuscarFeedbackParaTreino(LIMITE_FEEDBACK, ok_feedback)
          IN  /\ candidatos' = [redacoes_alta_confianca |-> Lista(redacoes_alta_confianca),
                                feedback_humano |-> Lista(feedback)]
              /\ dataset' = Lista(PrepararDatasetRetreino(redacoes_alta_confianca, feedback))
    /\ UNCHANGED <<settings, predictor, redacoes, correcoes, pc, texto, redacao_id,
                   encoding, predicao, analise, correcao, rota, erro, retorno, aviso,
                   instancia, parciais, espera, feedback_humano, modelo_metrics,
                   retorno_retreino>>

NextSelecao ==
    \/ ProcessarFeedbackHumano
    \/ PrepararDataset

SpecSelecao == InitRetreino /\ [][NextSelecao]_vars

\* the selected high-confidence rows whose essay no selected feedback record
\* reaches
SemCorrecaoHumana ==
    LET A == candidatos.redacoes_alta_confianca.itens
        F == candidatos.feedback_humano.itens
    IN  {i \in 1 .. Len(A) :
            \A j \in 1 .. Len(F) : F[j].correcoes.redacao_id # A[i].redacao_id}

\* C20 (the claim as stated): in the training set, an essay reached both by
\* a high-confidence correction and by a human feedback record has the
\* human-corrected targets only: the examples of source "alta_confianca" are
\* those of the essays that no feedback record reaches
C20_PrioridadeHumana ==
    (dataset # None)
        => Cardinality({k \in 1 .. Len(dataset.itens) :
                               dataset.itens[k].fonte = "alta_confianca"})
               = Cardinality(SemCorrecaoHumana)

\* a training set with two examples of one essay, the model's marks in one
\* and the teacher's in the other
C20_AlvosConcorrentes ==
    /\ dataset # None
    /\ \E i, j \in 1 .. Len(dataset.itens) :
          /\ dataset.itens[i].fonte = "alta_confianca"
          /\ dataset.itens[j].fonte = "feedback_humano"
          /\ candidatos.redacoes_alta_confianca.itens[i].redacao_id
               = candidatos.feedback_humano.itens[
                     j - Len(candidatos.redacoes_alta_confianca.itens)].correcoes.redacao_id
          /\ dataset.itens[i].notas # dataset.itens[j].notas


-----------------------------------------------------------------------------
(* The examples of the training set *)

\* a training example with a text, five defined marks in 0..200, a defined
\* total in 0..1000 and a source
CandidatoCompleto(e) ==
    /\ e.texto \in Textos
    /\ \A c \in 1 .. 5 : e.notas[c] # NULO /\ e.notas[c] >= 0 /\ e.notas[c] <= 200
    /\ e.score_total # NULO /\ e.score_total >= 0 /\ e.score_total <= 1000
    /\ e.fonte \in {"alta_confianca", "feedback_humano"}

\* C21 (the claim as stated): every example of the training set carries a
\* text, five defined marks in 0..200, a defined total in 0..1000 and a
\* source of the two known ones
C21_CandidatosCompletos ==
    (dataset # None)
        => \A k \in 1 .. Len(dataset.itens) : CandidatoCompleto(dataset.itens[k])

\* the examples that come from high-confidence corrections are complete
C21_AltaConfiancaCompleta ==
    (dataset # None)
        => \A k \in 1 .. Len(dataset.itens) :
               (dataset.itens[k].fonte = "alta_confianca")
                   => CandidatoCompleto(dataset.itens[k])


-----------------------------------------------------------------------------
(* The structural profile: LinguisticAnalyzer applied to texts *)

MaxTokens == 5

\* the tokens of the short texts: two words, a blank line, a full stop
\* followed by a line break
VocabEstrutura == {"governo", "portanto", "\n\n", ".\n"}

\* RedacaoInput.validar_texto returns v.strip(): a text starts and ends with
\* a word
TextosCurtos ==
    {t \in UNION {[1 .. n -> VocabEstrutura] : n \in 1 .. MaxTokens} :
        ~Separador(t[1]) /\ ~Separador(t[Len(t)])}

\* nine connectives of the lexicon none of which holds another
ListaConectivos ==
    <<"porém", "contudo", "todavia", "entretanto", "pois", "porque",
      "ademais", "também", "portanto">>

\* texts with a chosen number of connectives: the first n of the list after
\* a word, one connective repeated, a word that holds a connective, a
\* connective that holds two others, a capitalised connective
TextosConectivos ==
    {<<"governo">> \o SubSeq(ListaConectivos, 1, n) : n \in 0 .. 9}
    \cup {[j \in 1 .. n |-> "portanto"] : n \in 7 .. 8}
    \cup { <<"mesmas", "porém", "contudo">>,
           <<"assim como", "porém", "contudo", "todavia", "entretanto">>,
           <<"assim como", "porém", "contudo", "todavia", "entretanto", "pois", "porque">>,
           <<"Portanto", "porém", "contudo">>,
           <<"governo", "\n\n", "logotipo">>,
           <<"governo", "\n\n", "medidas">> }

TextosEstrutura == TextosCurtos \cup TextosConectivos

\* the analyzer is called on a text: analisar_completo
AnalisarTexto ==
    /\ pc = "ocioso"
    /\ analise = None
    /\ \E txt \in TextosEstrutura, ferramenta \in EstadosDaFerramenta :
          /\ texto' = txt
          /\ analise' = AnalisarCompleto(txt, ferramenta = "ok")
          /\ aviso' = AvisoDe(ferramenta)
    /\ UNCHANGED <<settings, predictor, redacoes, correcoes, pc, redacao_id,
                   encoding, predicao, correcao, rota, erro, retorno,
                   instancia, parciais, espera, retreino>>

InitEstrutura ==
    /\ Init
    /\ settings = DefaultSettings
    /\ predictor.model_version = "vA"
    /\ Len(predictor.models) = ENSEMBLE_SIZE

NextEstrutura == AnalisarTexto

SpecEstrutura == InitEstrutura /\ [][NextEstrutura]_vars

\* the text has no blank line
SemLinhaEmBranco(txt) == \A j \in 1 .. Len(txt) : txt[j] # "\n\n"

\* the number of blocks of words of a text, a block ending at a blank line,
\* at a full stop followed by a line break, or with the text
Blocos(txt) ==
    Cardinality({j \in 1 .. Len(txt) :
                    /\ ~Separador(txt[j])
                    /\ (j = 1 \/ Separador(txt[j - 1]))})

\* C22 (the claim as stated): a text with no blank line has one paragraph
\* and no development, and tem_desenvolvimento holds exactly when there are
\* three paragraphs or more
C22_SemLinhaEmBrancoUmParagrafo ==
    (analise # None)
        => /\ SemLinhaEmBranco(texto)
                => /\ analise.analise_estrutura.num_paragrafos = 1
                   /\ ~analise.analise_estrutura.tem_desenvolvimento
           /\ analise.analise_estrutura.tem_desenvolvimento
                <=> (analise.analise_estrutura.num_paragrafos >= 3)

\* C22 (amended): a text with no blank line and no full stop followed by a
\* line break has one paragraph and no development; in general the number of
\* paragraphs is the number of blocks that blank lines and full stops
\* followed by a line break delimit, and tem_desenvolvimento holds exactly
\* when that number is 3 or more
C22_ParagrafosPorSeparador ==
    (analise # None)
        => /\ (\A j \in 1 .. Len(texto) : ~Separador(texto[j]))
                => /\ analise.analise_estrutura.num_paragrafos = 1
                   /\ ~analise.analise_estrutura.tem_desenvolvimento
           /\ analise.analise_estrutura.num_paragrafos = Blocos(texto)
           /\ analise.analise_estrutura.tem_desenvolvimento <=> (Blocos(texto) >= 3)

\* a text with no blank line was analysed and has three paragraphs
C22_Witness ==
    /\ analise # None
    /\ SemLinhaEmBranco(texto)
    /\ analise.analise_estrutura.num_paragrafos = 3
    /\ analise.analise_estrutura.tem_desenvolvimento


\* the lexicon entries found in the tokens of a text, token by token
RECURSIVE EntradasEm(_)
EntradasEm(txt) ==
    IF txt = <<>> THEN {}
    ELSE {c \in Conectivos : Ocorre(c, Lower(Head(txt)))} \cup EntradasEm(Tail(txt))

\* the rating of the bands <3, 3-4, 5-7, >=8
Faixa(n, nivel) ==
    /\ (n < 3) <=> (nivel = "insuficiente")
    /\ (n >= 3 /\ n <= 4) <=> (nivel = "suficiente")
    /\ (n >= 5 /\ n <= 7) <=> (nivel = "adequado")
    /\ (n >= 8) <=> (nivel = "excelente")

\* C23 (the claim as stated): uso_conectivos is the band of the number of
\* occurrences of connectives in the text; 8 occurrences are rated
\* "excelente" and 7 "adequado"
C23_FaixaDasOcorrencias ==
    (analise # None)
        => Faixa(Ocorrencias(texto), analise.analise_estrutura.uso_conectivos)

\* C23 (amended): uso_conectivos is the band of the number of different
\* lexicon entries that occur in the lower-cased text as substrings,
\* however often each occurs: 8 different entries are rated "excelente", 7
\* "adequado"
C23_FaixaDasEntradas ==
    (analise # None)
        => Faixa(Cardinality(EntradasEm(texto)), analise.analise_estrutura.uso_conectivos)

\* a text with exactly 8 different entries was rated "excelente"
C23_Witness ==
    /\ analise # None
    /\ Cardinality(EntradasEm(texto)) = 8
    /\ analise.analise_estrutura.uso_conectivos = "excelente"

\* a text with 8 occurrences of one connective was rated "insuficiente"
C23_OitoRepetidos ==
    /\ analise # None
    /\ Ocorrencias(texto) = 8
    /\ analise.analise_estrutura.uso_conectivos = "insuficiente"

\* a text with 7 different entries was rated "adequado"
C23_SeteEntradas ==
    /\ analise # None
    /\ Cardinality(EntradasEm(texto)) = 7
    /\ analise.analise_estrutura.uso_conectivos = "adequado"


\* the last block of words of a text
UltimoBloco(txt) ==
    LET inicio == CHOOSE j \in 1 .. Len(txt) :
                      /\ \A k \in j .. Len(txt) : ~Separador(txt[k])
                      /\ (j = 1 \/ Separador(txt[j - 1]))
    IN  SubSeq(txt, inicio, Len(txt))

\* a term of the closing keyword set occurs in the last block of the text
TermoNoFim(txt) ==
    \E ind \in IndicadoresConclusao, j \in 1 .. Len(UltimoBloco(txt)) :
        Ocorre(ind, Lower(UltimoBloco(txt)[j]))

\* C24 (the claim as stated): tem_conclusao holds exactly when the last
\* paragraph holds a term of the closing keyword set, whatever the number of
\* paragraphs
C24_ConclusaoPeloUltimoParagrafo ==
    (analise # None)
        => (analise.analise_estrutura.tem_conclusao <=> TermoNoFim(texto))

\* C24 (amended): tem_conclusao holds exactly when the text has two
\* paragraphs or more and the last one holds a term of the closing keyword
\* set; a text of one paragraph has no conclusion
C24_ConclusaoComDoisParagrafos ==
    (analise # None)
        => (analise.analise_estrutura.tem_conclusao
              <=> (Blocos(texto) >= 2 /\ TermoNoFim(texto)))

\* a text of one paragraph that holds a closing term was analysed
C24_Witness ==
    /\ analise # None
    /\ analise.analise_estrutura.num_paragrafos = 1
    /\ TermoNoFim(texto)
    /\ ~analise.analise_estrutura.tem_conclusao

\* a text of two paragraphs whose last holds a closing term inside a longer
\* word was analysed
C24_TermoEmPalavra ==
    /\ analise # None
    /\ texto = <<"governo", "\n\n", "logotipo">>
    /\ analise.analise_estrutura.tem_conclusao


-----------------------------------------------------------------------------
(* The level of the feedback of a competency *)

\* Competencia.nota = Field(..., ge=0, le=200)
NotasPossiveis == 0 .. 200

\* gerar_feedback_competencia is called for a competency and a mark; retorno
\* holds what it returned
GerarFeedback ==
    /\ pc = "ocioso"
    /\ retorno = None
    /\ \E numero \in 1 .. 5, nota \in NotasPossiveis :
          retorno' = GerarFeedbackCompetencia(numero, nota, <<>>)
    /\ UNCHANGED <<settings, predictor, redacoes, correcoes, pc, texto, redacao_id,
                   encoding, predicao, analise, correcao, rota, erro, aviso,
                   instancia, parciais, espera, retreino>>

NextFeedback == GerarFeedback

SpecFeedback == InitEstrutura /\ [][NextFeedback]_vars

\* the order of the levels, from the worst to the best
OrdemDoNivel(nivel) ==
    CASE nivel = "Insuficiente" -> 0
      [] nivel = "Regular"      -> 1
      [] nivel = "Bom"          -> 2
      [] nivel = "Muito Bom"    -> 3
      [] nivel = "Excelente"    -> 4

\* the level of a lower mark of the same competency is never better
NivelNaoMelhora ==
    \A n \in NotasPossiveis :
        (n <= retorno.nota)
            => OrdemDoNivel(GerarFeedbackCompetencia(retorno.numero, n, <<>>).nivel)
                 <= OrdemDoNivel(retorno.nivel)

\* C25 (the claim as stated): for each of the five competencies a mark of
\* 180 or more is "Excelente", a mark below 120 is "Insuficiente", and the
\* level never improves when the mark decreases
C25_FaixasPorCompetencia ==
    (retorno # None)
        => /\ (retorno.nota >= 180) <=> (retorno.nivel = "Excelente")
           /\ (retorno.nota < 120) <=> (retorno.nivel = "Insuficiente")
           /\ NivelNaoMelhora

\* what holds of every competency: 180 or more is "Excelente", 160..179
\* "Muito Bom", 140..159 "Bom", and the level never improves when the mark
\* decreases; below 120 competencies 1 and 2 are "Insuficiente"
C25_FaixasComuns ==
    (retorno # None)
        => /\ (retorno.nota >= 180) <=> (retorno.nivel = "Excelente")
           /\ (retorno.nota >= 160 /\ retorno.nota < 180) <=> (retorno.nivel = "Muito Bom")
           /\ (retorno.nota >= 140 /\ retorno.nota < 160) <=> (retorno.nivel = "Bom")
           /\ (retorno.numero <= 2) => ((retorno.nota < 120) <=> (retorno.nivel = "Insuficiente"))
           /\ NivelNaoMelhora

\* competency 3 with mark 0 was labelled "Regular"
C25_ZeroRegular ==
    /\ retorno # None
    /\ retorno.numero = 3
    /\ retorno.nota = 0
    /\ retorno.nivel = "Regular"


-----------------------------------------------------------------------------
(* Fetching a persisted correction *)

\* supabase_client.buscar_correcao: the row of table "correcoes" with that
\* id, or None
BuscarCorrecao(correcao_id) ==
    LET achadas == SelectSeq(correcoes, LAMBDA l : l.id = correcao_id)
    IN  IF achadas = <<>> THEN None ELSE achadas[1]

\* C26 (the claim as stated): after corrigir returned a correction, fetching
\* by its id gives the row persisted for that request, with the same total,
\* marks and confidence
C26_IdaEVolta ==
    (pc = "retornado")
        => LET linha == BuscarCorrecao(retorno.id)
           IN  /\ linha # None
               /\ linha.redacao_id = retorno.redacao_id
               /\ linha.score_total = retorno.score_total
               /\ \A c \in 1 .. 5 : linha.notas[c] = retorno.competencias[c].nota
               /\ linha.confianca = retorno.confianca

\* the row persisted for the request of the returned correction carries the
\* same total, marks and confidence, under the id the table gave it
C26_LinhaDaRedacao ==
    (pc = "retornado")
        => \E k \in 1 .. Len(correcoes) :
              /\ correcoes[k].redacao_id = retorno.redacao_id
              /\ correcoes[k].score_total = retorno.score_total
              /\ \A c \in 1 .. 5 : correcoes[k].notas[c] = retorno.competencias[c].nota
              /\ correcoes[k].confianca = retorno.confianca
              /\ correcoes[k].id # retorno.id


-----------------------------------------------------------------------------
(* The version that serves after a reload *)

\* C27 (the claim as stated): a correction that starts after the reloads so
\* far is scored by the ensemble of the version that get_predictor() holds
\* and get_model_info() reports
C27_VersaoRecarregadaServe ==
    [][(pc = "ocioso" /\ pc' = "recebido")
          => /\ predictor.model_version = instancia.model_version
             /\ predictor.models = instancia.models]_vars

\* the version a prediction reports is the version of the members that
\* scored it, those the corrector took at its construction
C27_VersaoDoCorrector ==
    (predicao # None) => predicao.modelo_version = predictor.model_version


-----------------------------------------------------------------------------
(* What a failed call leaves in the tables *)

\* the essay rows that no correction row references
RedacoesSemCorrecao ==
    {i \in 1 .. Len(redacoes) :
        \A k \in 1 .. Len(correcoes) : correcoes[k].redacao_id # redacoes[i].id}

\* C28 (the claim as stated): when no call is in flight, every essay row
\* that corrigir created has a correction row that references it; a call
\* that failed left the tables as they were
C28_SemRedacaoOrfa ==
    (pc \in {"ocioso", "retornado", "falhou"}) => RedacoesSemCorrecao = {}

\* a call that fails before the essay row is created leaves no row, and a
\* call that returns leaves an essay row with its correction row
C28_OrfaSoDeFalha ==
    /\ (pc = "retornado") => redacao_id \notin RedacoesSemCorrecao
    /\ (pc = "falhou" /\ erro.etapa = "criar_redacao") => redacao_id = None


-----------------------------------------------------------------------------
(* The routing predicates under every configuration of the thresholds *)

\* the values the two thresholds are tried with
ValoresDeLimiar == {6000, DEFAULT_LOW_CONFIDENCE_THRESHOLD, DEFAULT_CONFIDENCE_THRESHOLD}

\* Settings reads CONFIDENCE_THRESHOLD and LOW_CONFIDENCE_THRESHOLD from the
\* environment, each on its own: no validator relates them
TodasConfiguracoes ==
    [CONFIDENCE_THRESHOLD : ValoresDeLimiar, LOW_CONFIDENCE_THRESHOLD : ValoresDeLimiar]

\* confidences at, just below and between the threshold values
ConfiancasDeTeste ==
    {0, SCALE} \cup UNION {{v - 1, v, v + 1} : v \in ValoresDeLimiar}

InitLimiares ==
    /\ settings \in TodasConfiguracoes
    /\ predictor = [model_version |-> "vA",
                    models |-> LoadEnsemble("vA", 0 .. (ENSEMBLE_SIZE - 1))]
    /\ instancia = predictor
    /\ parciais = <<>>
    /\ espera = 0
    /\ redacoes = <<>>
    /\ correcoes = <<>>
    /\ pc = "ocioso"
    /\ texto = None
    /\ redacao_id = None
    /\ encoding = None
    /\ predicao = None
    /\ analise = None
    /\ correcao = None
    /\ rota = "pendente"
    /\ erro = None
    /\ retorno = None
    /\ aviso = "nenhum"
    /\ feedback_humano = <<>>
    /\ modelo_metrics = <<>>
    /\ candidatos = None
    /\ dataset = None
    /\ retorno_retreino = None

\* a confidence is classified (_classificar_confianca) and routed (step 8 of
\* corrigir): predicao holds the confidence and its tier
ClassificarERotear ==
    /\ predicao = None
    /\ \E confianca \in ConfiancasDeTeste :
          /\ predicao' = [confianca |-> confianca,
                          confianca_nivel |-> ClassificarConfianca(confianca, settings)]
          /\ rota' = IF ShouldUseForTraining(confianca, settings) THEN "retreino"
                     ELSE IF NeedsHumanFeedback(confianca, settings) THEN "feedback_humano"
                     ELSE "nenhuma"
    /\ UNCHANGED <<settings, predictor, redacoes, correcoes, pc, texto, redacao_id,
                   encoding, analise, correcao, erro, retorno, aviso,
                   instancia, parciais, espera, retreino>>

NextLimiares == ClassificarERotear

SpecLimiares == InitLimiares /\ [][NextLimiares]_vars

\* C29 (the claim as stated): for every confidence and every configured
\* pair of thresholds, should_use_for_training holds exactly when the tier
\* is "alta", needs_human_feedback exactly when it is "baixa", and the two
\* never hold together
C29_PredicadosEFaixa ==
    (predicao # None)
        => /\ ShouldUseForTraining(predicao.confianca, settings)
                <=> (predicao.confianca_nivel = "alta")
           /\ NeedsHumanFeedback(predicao.confianca, settings)
                <=> (predicao.confianca_nivel = "baixa")
           /\ ~(/\ ShouldUseForTraining(predicao.confianca, settings)
                /\ NeedsHumanFeedback(predicao.confianca, settings))

\* the same, for the pairs whose low threshold is not above the high one
C29_LimiaresOrdenados ==
    (predicao # None
     /\ settings.LOW_CONFIDENCE_THRESHOLD <= settings.CONFIDENCE_THRESHOLD)
        => /\ ShouldUseForTraining(predicao.confianca, settings)
                <=> (predicao.confianca_nivel = "alta")
           /\ NeedsHumanFeedback(predicao.confianca, settings)
                <=> (predicao.confianca_nivel = "baixa")
           /\ ~(/\ ShouldUseForTraining(predicao.confianca, settings)
                /\ NeedsHumanFeedback(predicao.confianca, settings))

\* should_use_for_training agrees with the tier "alta" under every pair
C29_AltaSempre ==
    (predicao # None)
        => (ShouldUseForTraining(predicao.confianca, settings)
              <=> (predicao.confianca_nivel = "alta"))


-----------------------------------------------------------------------------
(* An ensemble of one member *)

\* C30: with exactly one member loaded, every prediction has all standard
\* deviations 0, confidence 1 and tier "alta"; the Correction built from it
\* is eligible for retraining, carries no recommendation of human
\* validation, and is routed to retraining
C30_UmMembroConfiancaTotal ==
    (Len(predictor.models) = 1)
        => /\ (predicao # None)
                => /\ Desvios(Coletar(predictor.models, encoding))
                        = [competencias |-> Todas(0), score |-> 0]
                   /\ predicao.confianca = SCALE
                   /\ predicao.confianca_nivel = "alta"
           /\ (correcao # None)
                => /\ correcao.confianca = SCALE
                   /\ ShouldUseForTraining(correcao.confianca, settings)
                   /\ ~NeedsHumanFeedback(correcao.confianca, settings)
                   /\ ~correcao.feedback_geral.recomenda_validacao
           /\ (pc \in {"roteado", "retornado"}) => rota = "retreino"
           /\ \A k \in 1 .. Len(correcoes) : correcoes[k].confianca = SCALE

\* a Correction of an ensemble of one member was returned
C30_Witness ==
    /\ pc = "retornado"
    /\ Len(predictor.models) = 1
    /\ retorno.confianca = SCALE
    /\ rota = "retreino"

=============================================================================
